---- MODULE Spec2Model ----
(***************************************************************************)
(* A model of ExPixel/bf: the optimizing Brainfuck front end and its       *)
(* interpreter (src/src/bf.rs) and the LLVM lowerer (src/src/bfllvm.rs).   *)
(*                                                                         *)
(* Indices (loop targets, loop_stack entries, pc, data_ptr) keep the       *)
(* 0-based values of the Rust code; a TLA+ sequence s holds the element of *)
(* Rust index i at s[i + 1].  A usize is held as the representative of its *)
(* value modulo 2^64 that lies nearest to 0, so that -1 stands for         *)
(* usize::MAX: every index test treats a negative representative as the    *)
(* huge value it stands for.                                               *)
(*                                                                         *)
(* Specifications: Spec (one compile), SpecRun (compile and run),          *)
(* SpecPeephole (the peephole patterns, run as written), SpecJit (the      *)
(* interpreter and then the JIT on one source), SpecRecompile (compile     *)
(* called again on a compiled program), SpecHello (Hello World, with the   *)
(* fairness of the run loop), SpecChunks (the reader's chunking), SpecIo   *)
(* (reads and writes that fail), SpecWrap (long runs of '+' and '-'),      *)
(* SpecMove (the loop [->+<] behind two counted runs), SpecJitLife (run    *)
(* called on a JIT program at any point of its life), SpecEquiv (the two   *)
(* builds, with and without nooptim, run on the same sources) and          *)
(* SpecBodies (every loop body of up to five commands is compiled).        *)
(***************************************************************************)
EXTENDS Integers, Sequences, FiniteSets, TLC

\* ------------------------------------------------------------------ bounds

\* Spec: the compiler reads every source of at most this many bytes.
MaxSrcLen == 4

\* SpecRun: every source of at most this many bytes is compiled and run.
MaxRunSrcLen == 3

\* SpecRun: at most this many run calls are made on one program.
MaxRunCalls == 2

\* SpecJit: every source of at most this many bytes is compiled and run by
\* the interpreter and then by the JIT.
MaxJitSrcLen == 3

\* SpecJit: a run is followed until it has written this many bytes.
MaxOutput == 4

\* SpecChunks: the reader returns chunks of at most MaxChunkLen bytes, of a
\* source of at most MaxChunkSrcLen bytes.
MaxChunkLen == 2

MaxChunkSrcLen == 4

\* SpecRecompile: at most this many compile calls are made on one program,
\* each on a source of at most MaxRecompileSrcLen bytes.
MaxCompileCalls == 2

MaxRecompileSrcLen == 2

\* SpecIo: every source of at most this many bytes is compiled and run.
MaxIoSrcLen == 3

\* SpecWrap: runs of '+' and of '-' of up to this many commands are compiled
\* and run.
MaxRunLen == 257

\* SpecJitLife: a JIT program is compiled from a source of at most
\* MaxLifeSrcLen bytes and run is called on it up to MaxLifeRunCalls times.
MaxLifeSrcLen == 3

MaxLifeRunCalls == 2

\* SpecEquiv: every source of at most MaxEquivSrcLen commands is compiled
\* and run, and the run of the other build's program is followed for at most
\* MaxEquivSteps instructions.
MaxEquivSrcLen == 3

MaxEquivSteps == 2500

\* SpecBodies: the compiler reads every source of at most this many
\* commands that are no '.' and no ','.
MaxBodySrcLen == 7

\* SpecMove: the first cell is set by up to MaxA '+' and its neighbour by up
\* to MaxB '+'.
MaxA == 256

MaxB == 3

\* The tape length of the model, standing for BF_MEMORY_SIZE (3000).
TapeSize == 7

\* ------------------------------------------------------- program constants

\* BFCellValue = u8: a cell holds a value modulo 256.
CellMod == 256

\* ------------------------------------------------------------- source bytes

\* The eight command bytes; "x" stands for every other byte.
Commands == {">", "<", "+", "-", ".", ",", "[", "]"}

Bytes == Commands \cup {"x"}

valid_bf_char(ch) == ch \in Commands

\* ------------------------------------------------------------ instructions

IncPC(n) == [op |-> "IncPC", arg |-> n]

DecPC(n) == [op |-> "DecPC", arg |-> n]

IncVal(n) == [op |-> "IncVal", arg |-> n]

DecVal(n) == [op |-> "DecVal", arg |-> n]

Output(n) == [op |-> "Output", arg |-> n]

Input(n) == [op |-> "Input", arg |-> n]

LoopStart(t) == [op |-> "LoopStart", arg |-> t]

LoopEnd(t) == [op |-> "LoopEnd", arg |-> t]

ZeroCurrentCell == [op |-> "ZeroCurrentCell", arg |-> 0]

AddCellValueRight(d) == [op |-> "AddCellValueRight", arg |-> d]

AddCellValueLeft(d) == [op |-> "AddCellValueLeft", arg |-> d]

SubCellValueRight(d) == [op |-> "SubCellValueRight", arg |-> d]

SubCellValueLeft(d) == [op |-> "SubCellValueLeft", arg |-> d]

FindZeroCellLeft(s) == [op |-> "FindZeroCellLeft", arg |-> s]

FindZeroCellRight(s) == [op |-> "FindZeroCellRight", arg |-> s]

\* The element of Rust index i.
At(s, i) == s[i + 1]

\* ------------------------------------------------------------- peephole

\* optimize_find_zero that takes a loop of one DecVal for a scan as well.
optimize_find_zero_AnyStep(window) ==
  IF Len(window) = 1
  THEN IF window[1].op \in {"DecPC", "DecVal"} THEN << FindZeroCellLeft(window[1].arg) >>
       ELSE IF window[1].op = "IncPC" THEN << FindZeroCellRight(window[1].arg) >>
       ELSE << >>
  ELSE << >>

\* optimize_zero that takes a loop around a loop for a clearing loop too.
optimize_zero_AroundLoop(window) ==
  IF Len(window) = 1
  THEN IF window[1] = DecVal(1) THEN << ZeroCurrentCell >>
       ELSE IF window[1] = ZeroCurrentCell THEN << ZeroCurrentCell >>
       ELSE << >>
  ELSE IF Len(window) > 1 /\ window[Len(window)].op = "LoopEnd" /\ window[1].op = "LoopStart"
  THEN << ZeroCurrentCell >>
  ELSE << >>

\* A rewriter returns the workspace it filled: <<>> when it returned false.
optimize_find_zero(window) ==
  IF Len(window) = 1
  THEN IF window[1].op = "DecPC" THEN << FindZeroCellLeft(window[1].arg) >>
       ELSE IF window[1].op = "IncPC" THEN << FindZeroCellRight(window[1].arg) >>
       ELSE << >>
  ELSE << >>

optimize_zero(window) ==
  IF Len(window) = 1
  THEN IF window[1] = DecVal(1) THEN << ZeroCurrentCell >>
       ELSE IF window[1] = ZeroCurrentCell THEN << ZeroCurrentCell >>
       ELSE << >>
  ELSE << >>

optimize_move_data(window) ==
  IF Len(window) = 4 /\ window[1] = DecVal(1)
  THEN IF window[3] = IncVal(1)
       THEN IF window[2].op = "IncPC"
            THEN IF window[4].op = "DecPC" /\ window[2].arg = window[4].arg
                 THEN << AddCellValueRight(window[2].arg) >> ELSE << >>
            ELSE IF window[2].op = "DecPC"
            THEN IF window[4].op = "IncPC" /\ window[2].arg = window[4].arg
                 THEN << AddCellValueLeft(window[2].arg) >> ELSE << >>
            ELSE << >>
       ELSE IF window[3] = DecVal(1)
       THEN IF window[2].op = "IncPC"
            THEN IF window[4].op = "DecPC" /\ window[2].arg = window[4].arg
                 THEN << SubCellValueRight(window[2].arg) >> ELSE << >>
            ELSE IF window[2].op = "DecPC"
            THEN IF window[4].op = "IncPC" /\ window[2].arg = window[4].arg
                 THEN << SubCellValueLeft(window[2].arg) >> ELSE << >>
            ELSE << >>
       ELSE << >>
  ELSE << >>

\* The rewriters in the order of the OPTIMIZATIONS table: the first that
\* matches wins.
OPTIMIZATIONS(window) ==
  IF optimize_zero(window) # << >> THEN optimize_zero(window)
  ELSE IF optimize_move_data(window) # << >> THEN optimize_move_data(window)
  ELSE optimize_find_zero(window)

\* optimize_loop that truncates behind the LoopStart, not at it.
optimize_loop_KeepStart(instrs, loop_start) ==
  LET window == SubSeq(instrs, loop_start + 2, Len(instrs) - 1)
      workspace == OPTIMIZATIONS(window)
  IN  IF workspace # << >>
      THEN [instructions |-> SubSeq(instrs, 1, loop_start + 1) \o workspace,
            optimized |-> TRUE]
      ELSE [instructions |-> instrs, optimized |-> FALSE]

\* optimize_loop on the instruction vector instrs whose last element is the
\* LoopEnd just pushed: the vector afterwards, and whether it was rewritten.
optimize_loop(instrs, loop_start) ==
  LET window == SubSeq(instrs, loop_start + 2, Len(instrs) - 1)
      workspace == OPTIMIZATIONS(window)
  IN  IF workspace # << >>
      THEN [instructions |-> SubSeq(instrs, 1, loop_start) \o workspace,
            optimized |-> TRUE]
      ELSE [instructions |-> instrs, optimized |-> FALSE]

\* ------------------------------------------------------------- push_instr

\* The compiler's state: the fields of the BFProgram that compile writes and
\* the locals of compile.  panic is "" while no panic! was raised, and
\* panic_arg is the number the panic message names.
Compiler(instrs, count, st, stack, ch, n) ==
  [instructions |-> instrs, instr_count |-> count, stats |-> st,
   loop_stack |-> stack, last_char |-> ch, last_char_count |-> n,
   panic |-> "", panic_arg |-> 0]

\* One iteration of the '[' arm.
PushLoopStart(p) ==
  [p EXCEPT !.loop_stack = Append(@, Len(p.instructions)),
            !.instructions = Append(@, LoopStart(0)),
            !.instr_count = @ + 1]

\* PushLoopEnd without the back patch of the LoopStart placeholder.
PushLoopEnd_NoPatch(p, nooptim) ==
  IF p.loop_stack # << >>
  THEN LET loop_start == p.loop_stack[Len(p.loop_stack)]
           pushed == Append(p.instructions, LoopEnd(loop_start))
           opt == IF nooptim THEN [instructions |-> pushed, optimized |-> FALSE]
                  ELSE optimize_loop(pushed, loop_start)
       IN  [p EXCEPT !.loop_stack = SubSeq(@, 1, Len(@) - 1),
                     !.instructions = opt.instructions,
                     !.instr_count = @ + 1,
                     !.stats = [loop_count |-> @.loop_count + 1,
                                optimized_loop_count |->
                                  @.optimized_loop_count + (IF opt.optimized THEN 1 ELSE 0)]]
  ELSE [p EXCEPT !.panic = "No matching '[' for ']'",
                 !.panic_arg = Len(p.instructions)]

\* PushLoopEnd that skips a ']' met with an empty loop stack.
PushLoopEnd_NoPanic(p, nooptim) ==
  IF p.loop_stack # << >>
  THEN LET loop_start == p.loop_stack[Len(p.loop_stack)]
           loop_end == Len(p.instructions)
           patched == Append([p.instructions EXCEPT ![loop_start + 1] = LoopStart(loop_end)],
                             LoopEnd(loop_start))
           opt == IF nooptim THEN [instructions |-> patched, optimized |-> FALSE]
                  ELSE optimize_loop(patched, loop_start)
       IN  [p EXCEPT !.loop_stack = SubSeq(@, 1, Len(@) - 1),
                     !.instructions = opt.instructions,
                     !.instr_count = @ + 1,
                     !.stats = [loop_count |-> @.loop_count + 1,
                                optimized_loop_count |->
                                  @.optimized_loop_count + (IF opt.optimized THEN 1 ELSE 0)]]
  ELSE p

\* PushLoopEnd whose count follows the instructions the peephole pass
\* removes.
PushLoopEnd_Recount(p, nooptim) ==
  IF p.loop_stack # << >>
  THEN LET loop_start == p.loop_stack[Len(p.loop_stack)]
           loop_end == Len(p.instructions)
           patched == Append([p.instructions EXCEPT ![loop_start + 1] = LoopStart(loop_end)],
                             LoopEnd(loop_start))
           opt == IF nooptim THEN [instructions |-> patched, optimized |-> FALSE]
                  ELSE optimize_loop(patched, loop_start)
       IN  [p EXCEPT !.loop_stack = SubSeq(@, 1, Len(@) - 1),
                     !.instructions = opt.instructions,
                     !.instr_count = @ + 1 - (Len(patched) - Len(opt.instructions)),
                     !.stats = [loop_count |-> @.loop_count + 1,
                                optimized_loop_count |->
                                  @.optimized_loop_count + (IF opt.optimized THEN 1 ELSE 0)]]
  ELSE [p EXCEPT !.panic = "No matching '[' for ']'",
                 !.panic_arg = Len(p.instructions)]

\* PushLoopEnd that reads the top of the loop stack and leaves it there.
PushLoopEnd_NoPop(p, nooptim) ==
  IF p.loop_stack # << >>
  THEN LET loop_start == p.loop_stack[Len(p.loop_stack)]
           loop_end == Len(p.instructions)
           patched == Append([p.instructions EXCEPT ![loop_start + 1] = LoopStart(loop_end)],
                             LoopEnd(loop_start))
           opt == IF nooptim THEN [instructions |-> patched, optimized |-> FALSE]
                  ELSE optimize_loop(patched, loop_start)
       IN  [p EXCEPT !.instructions = opt.instructions,
                     !.instr_count = @ + 1,
                     !.stats = [loop_count |-> @.loop_count + 1,
                                optimized_loop_count |->
                                  @.optimized_loop_count + (IF opt.optimized THEN 1 ELSE 0)]]
  ELSE [p EXCEPT !.panic = "No matching '[' for ']'",
                 !.panic_arg = Len(p.instructions)]

\* One iteration of the ']' arm, with the build's nooptim feature.
PushLoopEnd(p, nooptim) ==
  IF p.loop_stack # << >>
  THEN LET loop_start == p.loop_stack[Len(p.loop_stack)]
           loop_end == Len(p.instructions)
           patched == Append([p.instructions EXCEPT ![loop_start + 1] = LoopStart(loop_end)],
                             LoopEnd(loop_start))
           opt == IF nooptim THEN [instructions |-> patched, optimized |-> FALSE]
                  ELSE optimize_loop(patched, loop_start)
       IN  [p EXCEPT !.loop_stack = SubSeq(@, 1, Len(@) - 1),
                     !.instructions = opt.instructions,
                     !.instr_count = @ + 1,
                     !.stats = [loop_count |-> @.loop_count + 1,
                                optimized_loop_count |->
                                  @.optimized_loop_count + (IF opt.optimized THEN 1 ELSE 0)]]
  ELSE [p EXCEPT !.panic = "No matching '[' for ']'",
                 !.panic_arg = Len(p.instructions)]

RECURSIVE PushLoopStarts(_, _)
PushLoopStarts(p, n) ==
  IF n = 0 THEN p ELSE PushLoopStarts(PushLoopStart(p), n - 1)

RECURSIVE PushLoopEnds(_, _, _)
PushLoopEnds(p, n, nooptim) ==
  IF n = 0 \/ p.panic # "" THEN p
  ELSE PushLoopEnds(PushLoopEnd(p, nooptim), n - 1, nooptim)

push_instr(p, ch, arg, nooptim) ==
  CASE ch = ">" -> [p EXCEPT !.instructions = Append(@, IncPC(arg)), !.instr_count = @ + arg]
    [] ch = "<" -> [p EXCEPT !.instructions = Append(@, DecPC(arg)), !.instr_count = @ + arg]
    [] ch = "+" -> [p EXCEPT !.instructions = Append(@, IncVal(arg)), !.instr_count = @ + arg]
    [] ch = "-" -> [p EXCEPT !.instructions = Append(@, DecVal(arg)), !.instr_count = @ + arg]
    [] ch = "." -> [p EXCEPT !.instructions = Append(@, Output(arg)), !.instr_count = @ + arg]
    [] ch = "," -> [p EXCEPT !.instructions = Append(@, Input(arg)), !.instr_count = @ + arg]
    [] ch = "[" -> PushLoopStarts(p, arg)
    [] ch = "]" -> PushLoopEnds(p, arg, nooptim)
    [] OTHER -> p

\* ---------------------------------------------------- BFProgram::compile

\* The body of the for loop for one byte ch of the buffer.
compile_byte(c, ch, nooptim) ==
  IF ~valid_bf_char(ch) THEN c
  ELSE IF c.last_char_count > 0
  THEN IF ch # c.last_char
       THEN LET p == push_instr(c, c.last_char, c.last_char_count, nooptim)
            IN  IF p.panic # "" THEN p
                ELSE [p EXCEPT !.last_char_count = 1, !.last_char = ch]
       ELSE [c EXCEPT !.last_char_count = @ + 1]
  ELSE [c EXCEPT !.last_char = ch, !.last_char_count = 1]

\* compile_chunk that pushes the pending run when the chunk ends.
RECURSIVE compile_chunk_Flush(_, _, _)
compile_chunk_Flush(c, buf, nooptim) ==
  IF c.panic # "" THEN c
  ELSE IF buf = << >>
  THEN IF c.last_char_count > 0
       THEN [push_instr(c, c.last_char, c.last_char_count, nooptim)
               EXCEPT !.last_char_count = 0]
       ELSE c
  ELSE compile_chunk_Flush(compile_byte(c, Head(buf), nooptim), Tail(buf), nooptim)

\* The arm Ok(read) with read > 0: the for loop over the bytes of the
\* buffer, left by a panic of push_instr.
RECURSIVE compile_chunk(_, _, _)
compile_chunk(c, buf, nooptim) ==
  IF c.panic # "" \/ buf = << >> THEN c
  ELSE compile_chunk(compile_byte(c, Head(buf), nooptim), Tail(buf), nooptim)

\* unmatched_loop_start taking the bottom of the stack.
unmatched_loop_start_Bottom(stack) == stack[1]

\* The loop stack entry the panic after the loop names: the one pop() returns.
unmatched_loop_start(stack) == stack[Len(stack)]

\* read returned Ok(0): the pending run is pushed, the loop is left, and an
\* entry still on the loop stack is a panic.
compile_eof(c, nooptim) ==
  LET p == IF c.last_char_count > 0
           THEN push_instr(c, c.last_char, c.last_char_count, nooptim)
           ELSE c
  IN  IF p.panic # "" THEN p
      ELSE IF p.loop_stack # << >>
      THEN [p EXCEPT !.panic = "No matching ']' for '['",
                     !.panic_arg = unmatched_loop_start(p.loop_stack),
                     !.loop_stack = SubSeq(@, 1, Len(@) - 1)]
      ELSE p

\* A whole compile call on a reader that returns the bytes of s and then
\* Ok(0), entered with the program fields of c.
RECURSIVE compile_bytes(_, _, _)
compile_bytes(c, s, nooptim) ==
  IF c.panic # "" THEN c
  ELSE IF s = << >> THEN compile_eof(c, nooptim)
  ELSE compile_bytes(compile_byte(c, Head(s), nooptim), Tail(s), nooptim)

\* ------------------------------------------------------------ interpreter

InTape(i) == i >= 0 /\ i < TapeSize

\* An event of the input stream that is no byte: the read returns Err.
IoError == -1

\* What println! leaves on the standard output for "Error while reading
\* char: .." and for "Error while outputting char: ..".
ReadDiagnostic == -1

WriteDiagnostic == -2

\* The interpreter's registers and streams during run(): stdin is what is
\* left of the input stream, stdout what was written so far, and sink the
\* outcomes of the writes to come on the standard output, TRUE for one that
\* returns Err; past the end of sink every write succeeds.
Machine(mem, dp, p, sin, sout) ==
  [memory |-> mem, data_ptr |-> dp, pc |-> p, stdin |-> sin, stdout |-> sout,
   sink |-> << >>, panic |-> ""]

Panic(m, msg) == [m EXCEPT !.panic = msg]

\* The next write on the standard output returns Err.
WriteFails(m) == m.sink # << >> /\ Head(m.sink)

\* stdout.write(buf) of one byte: Ok appends it, Err appends nothing.
Write(m, byte) ==
  IF m.sink = << >> THEN [m EXCEPT !.stdout = Append(@, byte)]
  ELSE IF Head(m.sink) THEN [m EXCEPT !.sink = Tail(@)]
  ELSE [m EXCEPT !.sink = Tail(@), !.stdout = Append(@, byte)]

\* println!(..): the line goes to the standard output, and the macro panics
\* when that write fails.
Println(m, line) ==
  IF WriteFails(m) THEN Panic([m EXCEPT !.sink = Tail(@)], "failed printing to stdout")
  ELSE Write(m, line)

\* cell_add_imm on a u8 that stops at 255.
cell_add_imm_Saturating(m, cell, amt) ==
  IF InTape(cell)
  THEN [m EXCEPT !.memory[cell] = IF @ + amt > CellMod - 1 THEN CellMod - 1 ELSE @ + amt]
  ELSE Panic(m, "index out of bounds")

\* cell_add_imm / cell_sub_imm: usize wrapping arithmetic cut to a u8.
cell_add_imm(m, cell, amt) ==
  IF InTape(cell)
  THEN [m EXCEPT !.memory[cell] = (@ + amt) % CellMod]
  ELSE Panic(m, "index out of bounds")

cell_sub_imm(m, cell, amt) ==
  IF InTape(cell)
  THEN [m EXCEPT !.memory[cell] = (@ - amt) % CellMod]
  ELSE Panic(m, "index out of bounds")

\* cell_add_cell on a u8 that stops at 255.
cell_add_cell_Saturating(m, lhs_cell, rhs_cell) ==
  IF InTape(rhs_cell) THEN cell_add_imm_Saturating(m, lhs_cell, m.memory[rhs_cell])
  ELSE Panic(m, "index out of bounds")

cell_add_cell(m, lhs_cell, rhs_cell) ==
  IF InTape(rhs_cell) THEN cell_add_imm(m, lhs_cell, m.memory[rhs_cell])
  ELSE Panic(m, "index out of bounds")

cell_sub_cell(m, lhs_cell, rhs_cell) ==
  IF InTape(rhs_cell) THEN cell_sub_imm(m, lhs_cell, m.memory[rhs_cell])
  ELSE Panic(m, "index out of bounds")

\* data_ptr += inc and data_ptr -= dec on a usize: a build with overflow
\* checks panics where the arithmetic leaves 0 .. 2^64 - 1, a build without
\* them wraps.
StepIncPC_ByOne(m, inc, overflow_checks) ==
  IF overflow_checks /\ m.data_ptr < 0 /\ m.data_ptr + 1 >= 0
  THEN Panic(m, "attempt to add with overflow")
  ELSE [m EXCEPT !.data_ptr = @ + 1]

StepIncPC(m, inc, overflow_checks) ==
  IF overflow_checks /\ m.data_ptr < 0 /\ m.data_ptr + inc >= 0
  THEN Panic(m, "attempt to add with overflow")
  ELSE [m EXCEPT !.data_ptr = @ + inc]

StepDecPC(m, dec, overflow_checks) ==
  IF overflow_checks /\ m.data_ptr >= 0 /\ m.data_ptr - dec < 0
  THEN Panic(m, "attempt to subtract with overflow")
  ELSE [m EXCEPT !.data_ptr = @ - dec]

\* Output(times): each iteration slices the current cell and writes it; on
\* Err the message is printed with println!.
RECURSIVE StepOutput(_, _)
StepOutput(m, times) ==
  IF times = 0 \/ m.panic # "" THEN m
  ELSE IF ~InTape(m.data_ptr) THEN Panic(m, "index out of bounds")
  ELSE IF WriteFails(m)
       THEN StepOutput(Println(Write(m, m.memory[m.data_ptr]), WriteDiagnostic), times - 1)
  ELSE StepOutput(Write(m, m.memory[m.data_ptr]), times - 1)

\* Input(times) whose read at the end of the stream stores the 0 of an
\* empty buffer.
RECURSIVE StepInput_ZeroAtEOF(_, _)
StepInput_ZeroAtEOF(m, times) ==
  IF times = 0 \/ m.panic # "" THEN m
  ELSE IF ~InTape(m.data_ptr) THEN Panic(m, "index out of bounds")
  ELSE IF m.stdin = << >>
       THEN StepInput_ZeroAtEOF([m EXCEPT !.memory[m.data_ptr] = 0], times - 1)
  ELSE IF Head(m.stdin) = IoError
       THEN StepInput_ZeroAtEOF(Println([m EXCEPT !.stdin = Tail(@)], ReadDiagnostic),
                                times - 1)
  ELSE StepInput_ZeroAtEOF([m EXCEPT !.memory[m.data_ptr] = Head(m.stdin),
                                     !.stdin = Tail(@)], times - 1)

\* Input(times): each iteration reads one byte into the current cell; a
\* read at the end of the stream returns Ok(0) and stores nothing, a read
\* that returns Err stores nothing and the message is printed with println!.
RECURSIVE StepInput(_, _)
StepInput(m, times) ==
  IF times = 0 \/ m.panic # "" THEN m
  ELSE IF ~InTape(m.data_ptr) THEN Panic(m, "index out of bounds")
  ELSE IF m.stdin = << >> THEN StepInput(m, times - 1)
  ELSE IF Head(m.stdin) = IoError
       THEN StepInput(Println([m EXCEPT !.stdin = Tail(@)], ReadDiagnostic), times - 1)
  ELSE StepInput([m EXCEPT !.memory[m.data_ptr] = Head(m.stdin),
                           !.stdin = Tail(@)], times - 1)

\* StepLoopStart that jumps one instruction behind the matching LoopEnd.
StepLoopStart_PastEnd(m, jump_to) ==
  IF ~InTape(m.data_ptr) THEN Panic(m, "index out of bounds")
  ELSE IF m.memory[m.data_ptr] = 0 THEN [m EXCEPT !.pc = jump_to + 1] ELSE m

\* StepLoopStart that enters the body whatever the cell holds.
StepLoopStart_EnterBody(m, jump_to) ==
  IF ~InTape(m.data_ptr) THEN Panic(m, "index out of bounds") ELSE m

StepLoopStart(m, jump_to) ==
  IF ~InTape(m.data_ptr) THEN Panic(m, "index out of bounds")
  ELSE IF m.memory[m.data_ptr] = 0 THEN [m EXCEPT !.pc = jump_to] ELSE m

\* StepLoopEnd that never jumps back.
StepLoopEnd_FallThrough(m, jump_to) ==
  IF ~InTape(m.data_ptr) THEN Panic(m, "index out of bounds") ELSE m

StepLoopEnd(m, jump_to) ==
  IF ~InTape(m.data_ptr) THEN Panic(m, "index out of bounds")
  ELSE IF m.memory[m.data_ptr] # 0 THEN [m EXCEPT !.pc = jump_to] ELSE m

\* StepZeroCurrentCell that takes one from the cell.
StepZeroCurrentCell_Decrement(m) ==
  IF ~InTape(m.data_ptr) THEN Panic(m, "index out of bounds")
  ELSE [m EXCEPT !.memory[m.data_ptr] = (@ - 1) % CellMod]

StepZeroCurrentCell(m) ==
  IF ~InTape(m.data_ptr) THEN Panic(m, "index out of bounds")
  ELSE [m EXCEPT !.memory[m.data_ptr] = 0]

\* StepMoveData that leaves the source cell as it is.
StepMoveData_KeepSource(m, dist, sign, add, overflow_checks) ==
  IF ~InTape(m.data_ptr) THEN Panic(m, "index out of bounds")
  ELSE IF m.memory[m.data_ptr] = 0 THEN m
  ELSE IF add THEN cell_add_cell(m, m.data_ptr + sign * dist, m.data_ptr)
  ELSE cell_sub_cell(m, m.data_ptr + sign * dist, m.data_ptr)

\* StepMoveData whose debug_assert! comes before the test of the cell.
StepMoveData_AssertFirst(m, dist, sign, add, overflow_checks) ==
  IF ~InTape(m.data_ptr) THEN Panic(m, "index out of bounds")
  ELSE IF overflow_checks /\ ~(IF sign = 1 THEN m.data_ptr + dist < TapeSize
                                           ELSE m.data_ptr >= dist)
  THEN Panic(m, "debug_assert")
  ELSE IF m.memory[m.data_ptr] = 0 THEN m
  ELSE LET lhs_cell == m.data_ptr + sign * dist
           r == IF add THEN cell_add_cell(m, lhs_cell, m.data_ptr)
                       ELSE cell_sub_cell(m, lhs_cell, m.data_ptr)
       IN  IF r.panic # "" THEN r ELSE [r EXCEPT !.memory[m.data_ptr] = 0]

\* The four move-data instructions: sign is 1 for Right and -1 for Left,
\* add tells AddCellValue* from SubCellValue*.
StepMoveData(m, dist, sign, add, overflow_checks) ==
  IF ~InTape(m.data_ptr) THEN Panic(m, "index out of bounds")
  ELSE IF m.memory[m.data_ptr] = 0 THEN m
  ELSE IF overflow_checks /\ ~(IF sign = 1 THEN m.data_ptr + dist < TapeSize
                                           ELSE m.data_ptr >= dist)
  THEN Panic(m, "debug_assert")
  ELSE LET lhs_cell == m.data_ptr + sign * dist
           r == IF add THEN cell_add_cell(m, lhs_cell, m.data_ptr)
                       ELSE cell_sub_cell(m, lhs_cell, m.data_ptr)
       IN  IF r.panic # "" THEN r ELSE [r EXCEPT !.memory[m.data_ptr] = 0]

\* FindZeroCellLeft / FindZeroCellRight: the while loop, sign -1 or 1.
RECURSIVE StepFindZero(_, _, _, _)

\* StepFindZero as a do-while loop: the pointer moves before each test.
RECURSIVE StepFindZero_DoWhile(_, _, _, _)
StepFindZero_DoWhile(m, step_size, sign, overflow_checks) ==
  IF overflow_checks /\ sign = -1 /\ m.data_ptr - step_size < 0
  THEN Panic(m, "attempt to subtract with overflow")
  ELSE LET n == [m EXCEPT !.data_ptr = @ + sign * step_size]
       IN  IF ~InTape(n.data_ptr) THEN Panic(n, "index out of bounds")
           ELSE IF n.memory[n.data_ptr] = 0 THEN n
           ELSE StepFindZero_DoWhile(n, step_size, sign, overflow_checks)

StepFindZero(m, step_size, sign, overflow_checks) ==
  IF ~InTape(m.data_ptr) THEN Panic(m, "index out of bounds")
  ELSE IF m.memory[m.data_ptr] = 0 THEN m
  ELSE IF overflow_checks /\ sign = -1 /\ m.data_ptr - step_size < 0
  THEN Panic(m, "attempt to subtract with overflow")
  ELSE StepFindZero([m EXCEPT !.data_ptr = @ + sign * step_size],
                    step_size, sign, overflow_checks)

\* _step: the instruction ins executed on m.
_step(m, ins, overflow_checks) ==
  CASE ins.op = "IncPC" -> StepIncPC(m, ins.arg, overflow_checks)
    [] ins.op = "DecPC" -> StepDecPC(m, ins.arg, overflow_checks)
    [] ins.op = "IncVal" -> cell_add_imm(m, m.data_ptr, ins.arg)
    [] ins.op = "DecVal" -> cell_sub_imm(m, m.data_ptr, ins.arg)
    [] ins.op = "Output" -> StepOutput(m, ins.arg)
    [] ins.op = "Input" -> StepInput(m, ins.arg)
    [] ins.op = "LoopStart" -> StepLoopStart(m, ins.arg)
    [] ins.op = "LoopEnd" -> StepLoopEnd(m, ins.arg)
    [] ins.op = "ZeroCurrentCell" -> StepZeroCurrentCell(m)
    [] ins.op = "AddCellValueRight" -> StepMoveData(m, ins.arg, 1, TRUE, overflow_checks)
    [] ins.op = "AddCellValueLeft" -> StepMoveData(m, ins.arg, -1, TRUE, overflow_checks)
    [] ins.op = "SubCellValueRight" -> StepMoveData(m, ins.arg, 1, FALSE, overflow_checks)
    [] ins.op = "SubCellValueLeft" -> StepMoveData(m, ins.arg, -1, FALSE, overflow_checks)
    [] ins.op = "FindZeroCellLeft" -> StepFindZero(m, ins.arg, -1, overflow_checks)
    [] ins.op = "FindZeroCellRight" -> StepFindZero(m, ins.arg, 1, overflow_checks)

\* ------------------------------------------------- BFLLVMProgram::push_instr

\* The instructions the lowerer builds into the function "bf".  PtrAdd and
\* PtrSub are the load / add or sub / store on the pointer variable data_ptr,
\* CellAdd and CellSub the same on the cell it points at; the constant of
\* CellAdd and CellSub is built at 8 bits.
PtrAdd(n) == [op |-> "PtrAdd", arg |-> n, iftrue |-> 0, iffalse |-> 0]

PtrSub(n) == [op |-> "PtrSub", arg |-> n, iftrue |-> 0, iffalse |-> 0]

CellAdd(n) == [op |-> "CellAdd", arg |-> n % CellMod, iftrue |-> 0, iffalse |-> 0]

CellSub(n) == [op |-> "CellSub", arg |-> n % CellMod, iftrue |-> 0, iffalse |-> 0]

\* call __bf_print_output(sout, cell) and cell = call __bf_get_input(sin)
CallOutput == [op |-> "CallOutput", arg |-> 0, iftrue |-> 0, iffalse |-> 0]

CallInput == [op |-> "CallInput", arg |-> 0, iftrue |-> 0, iffalse |-> 0]

\* br (cell == 0), iftrue, iffalse and br (cell != 0), iftrue, iffalse
CondBrEQ(t, f) == [op |-> "CondBrEQ", arg |-> 0, iftrue |-> t, iffalse |-> f]

CondBrNE(t, f) == [op |-> "CondBrNE", arg |-> 0, iftrue |-> t, iffalse |-> f]

RetVoid == [op |-> "RetVoid", arg |-> 0, iftrue |-> 0, iffalse |-> 0]

\* The lowerer's state: the fields of the BFLLVMProgram that compile writes
\* and the locals of compile.
LLVMCompiler(fn, at, count, stack, ch, n, rdy) ==
  [llvm_bf_fn |-> fn, builder |-> at, pc |-> count, block_stack |-> stack,
   last_char |-> ch, last_char_count |-> n, ready |-> rdy, panic |-> "", panic_arg |-> 0]

\* LLVMBuild*: the instruction is appended to the block the builder is at.
Build(p, ins) == [p EXCEPT !.llvm_bf_fn[p.builder + 1] = Append(@, ins)]

\* One iteration of the '[' arm: two blocks are appended to the function,
\* the loop is pushed, the branch is built and the builder moves to the
\* loop block.
LLVMPushLoopStart(p) ==
  LET loop_block == Len(p.llvm_bf_fn)
      after_loop_block == Len(p.llvm_bf_fn) + 1
      q == [p EXCEPT !.llvm_bf_fn = @ \o << << >>, << >> >>,
                     !.block_stack = Append(@, << p.pc, loop_block, after_loop_block >>)]
  IN  [Build(q, CondBrEQ(after_loop_block, loop_block))
         EXCEPT !.builder = loop_block, !.pc = @ + 1]

\* One iteration of the ']' arm.
LLVMPushLoopEnd(p) ==
  IF p.block_stack = << >>
  THEN [p EXCEPT !.panic = "No matching '[' for ']'", !.panic_arg = p.pc]
  ELSE LET top == p.block_stack[Len(p.block_stack)]
           q == [p EXCEPT !.block_stack = SubSeq(@, 1, Len(@) - 1)]
       IN  [Build(q, CondBrNE(top[2], top[3])) EXCEPT !.builder = top[3], !.pc = @ + 1]

RECURSIVE LLVMPushLoopStarts(_, _)
LLVMPushLoopStarts(p, n) ==
  IF n = 0 THEN p ELSE LLVMPushLoopStarts(LLVMPushLoopStart(p), n - 1)

RECURSIVE LLVMPushLoopEnds(_, _)
LLVMPushLoopEnds(p, n) ==
  IF n = 0 \/ p.panic # "" THEN p ELSE LLVMPushLoopEnds(LLVMPushLoopEnd(p), n - 1)

\* BFLLVMProgram::push_instr.  The arms of '.' and ',' build one call
\* whatever arg is; only the counter pc takes arg.
llvm_push_instr(p, ch, arg) ==
  CASE ch = ">" -> [Build(p, PtrAdd(arg)) EXCEPT !.pc = @ + arg]
    [] ch = "<" -> [Build(p, PtrSub(arg)) EXCEPT !.pc = @ + arg]
    [] ch = "+" -> [Build(p, CellAdd(arg)) EXCEPT !.pc = @ + arg]
    [] ch = "-" -> [Build(p, CellSub(arg)) EXCEPT !.pc = @ + arg]
    [] ch = "." -> [Build(p, CallOutput) EXCEPT !.pc = @ + arg]
    [] ch = "," -> [Build(p, CallInput) EXCEPT !.pc = @ + arg]
    [] ch = "[" -> LLVMPushLoopStarts(p, arg)
    [] ch = "]" -> LLVMPushLoopEnds(p, arg)
    [] OTHER -> p

\* --------------------------------------------------- BFLLVMProgram::compile

\* The body of the for loop for one byte ch of the buffer.
llvm_compile_byte(c, ch) ==
  IF ~valid_bf_char(ch) THEN c
  ELSE IF c.last_char_count > 0
  THEN IF ch # c.last_char
       THEN LET p == llvm_push_instr(c, c.last_char, c.last_char_count)
            IN  IF p.panic # "" THEN p
                ELSE [p EXCEPT !.last_char_count = 1, !.last_char = ch]
       ELSE [c EXCEPT !.last_char_count = @ + 1]
  ELSE [c EXCEPT !.last_char = ch, !.last_char_count = 1]

\* finalize_llvm_info: the function is closed with ret void and the
\* execution engine is made ready.
finalize_llvm_info(p) == [Build(p, RetVoid) EXCEPT !.ready = TRUE]

\* read returned Ok(0): the pending run is pushed and the loop is left; a
\* block still on the stack is a panic, else the function is finalized.
llvm_compile_eof(c) ==
  LET p == IF c.last_char_count > 0
           THEN llvm_push_instr(c, c.last_char, c.last_char_count)
           ELSE c
  IN  IF p.panic # "" THEN p
      ELSE IF p.block_stack # << >>
      THEN [p EXCEPT !.panic = "No matching ']' for '['",
                     !.panic_arg = p.block_stack[Len(p.block_stack)][1],
                     !.block_stack = SubSeq(@, 1, Len(@) - 1)]
      ELSE finalize_llvm_info(p)

\* ------------------------------------------------ the compiled function

\* The registers of the compiled function "bf" while it runs.  undefined is
\* set once it has read or written through a pointer outside the tape: the
\* function checks no bounds, and what follows is not defined.
LLVMMachine(mem, dp, blk, idx, sin, sout) ==
  [memory |-> mem, data_ptr |-> dp, block |-> blk, index |-> idx, stdin |-> sin,
   stdout |-> sout, sink |-> << >>, panic |-> "", undefined |-> FALSE]

Undefined(m) == [m EXCEPT !.undefined = TRUE]

\* __bf_print_output: one byte is written, and a write that returns Err
\* panics.
__bf_print_output(m, ch) ==
  IF WriteFails(m) THEN Panic(Write(m, ch), "Error while outputting char")
  ELSE Write(m, ch)

\* __bf_get_input: buf starts as [0]; a read at the end of the stream leaves
\* it so, and so does a read that returns Err, whose message is printed with
\* println!.  The byte returned is stored by the caller.
__bf_get_input(m) ==
  IF m.stdin = << >> THEN [m EXCEPT !.memory[m.data_ptr] = 0]
  ELSE IF Head(m.stdin) = IoError
       THEN Println([m EXCEPT !.memory[m.data_ptr] = 0, !.stdin = Tail(@)], ReadDiagnostic)
  ELSE [m EXCEPT !.memory[m.data_ptr] = Head(m.stdin), !.stdin = Tail(@)]

\* One instruction other than ret void, executed at m.
llvm_step(m, ins) ==
  LET next == [m EXCEPT !.index = @ + 1]
      cell == m.memory[m.data_ptr]
  IN  IF ins.op = "PtrAdd" THEN [next EXCEPT !.data_ptr = @ + ins.arg]
      ELSE IF ins.op = "PtrSub" THEN [next EXCEPT !.data_ptr = @ - ins.arg]
      ELSE IF ~InTape(m.data_ptr) THEN Undefined(m)
      ELSE CASE ins.op = "CellAdd" ->
                  [next EXCEPT !.memory[m.data_ptr] = (@ + ins.arg) % CellMod]
             [] ins.op = "CellSub" ->
                  [next EXCEPT !.memory[m.data_ptr] = (@ - ins.arg) % CellMod]
             [] ins.op = "CallOutput" -> __bf_print_output(next, cell)
             [] ins.op = "CallInput" -> __bf_get_input(next)
             [] ins.op = "CondBrEQ" ->
                  [m EXCEPT !.block = IF cell = 0 THEN ins.iftrue ELSE ins.iffalse,
                            !.index = 0]
             [] ins.op = "CondBrNE" ->
                  [m EXCEPT !.block = IF cell # 0 THEN ins.iftrue ELSE ins.iffalse,
                            !.index = 0]

\* The function holds an add or a sub of the pointer loaded from data_ptr
\* and a 32-bit constant: an instruction whose operands differ in type.
IllTyped(fn) ==
  \E b \in 1 .. Len(fn) : \E i \in 1 .. Len(fn[b]) : fn[b][i].op \in {"PtrAdd", "PtrSub"}

\* ------------------------------------------------------------------ state

VARIABLES
  \* BFProgram
  memory, instructions, instr_count, data_ptr, pc, stats,
  \* the locals of BFProgram::compile while it runs
  last_char, last_char_count, loop_stack,
  \* where the program's life stands: "new", "compile", "compiled", "run",
  \* "ran" or "panic", with the panic message and the number it names
  phase, panic, panic_arg,
  \* the bytes the reader has returned to the running compile call, and the
  \* number of compile and run calls made so far
  src, compile_calls, run_calls,
  \* the standard streams: the whole input the process is given, what is
  \* left of it to read, what was written, and the outcomes of the writes to
  \* come (TRUE for a write that fails)
  input, stdin, stdout, sink,
  \* the build: overflow checks and debug assertions on (a debug build) or
  \* off (a release build), and the nooptim feature
  overflow_checks, nooptim,
  \* BFLLVMProgram: its tape, the u32 counter compile keeps, the compiled
  \* flag, llvm_info.ready, the basic blocks of the function "bf" (block 0
  \* is "entry") and the block the builder is positioned at
  llvm_memory, llvm_pc, compiled, ready, llvm_bf_fn, builder,
  \* the locals of BFLLVMProgram::compile while it runs
  llvm_last_char, llvm_last_char_count, block_stack,
  \* where the JIT program's life stands ("new", "compile", "compiled", "run",
  \* "ran", "panic" or "undefined"), its panic, the bytes its reader has
  \* returned, and the compile and run calls made on it
  llvm_phase, llvm_panic, llvm_panic_arg, llvm_src, llvm_compile_calls, llvm_run_calls,
  \* the compiled function while it runs: the cell var_data_ptr points at
  \* (as an offset from the tape's base), the block and the instruction it
  \* is at, and the streams of the JIT program's process
  var_data_ptr, llvm_block, llvm_index, llvm_stdin, llvm_stdout, llvm_sink

program == << memory, instructions, instr_count, data_ptr, pc, stats >>

locals == << last_char, last_char_count, loop_stack >>

streams == << input, stdin, stdout, sink >>

build == << overflow_checks, nooptim >>

bfvars == << program, locals, phase, panic, panic_arg, src, compile_calls, run_calls,
             streams >>

llvm_program == << llvm_memory, llvm_pc, compiled, ready, llvm_bf_fn, builder >>

llvm_locals == << llvm_last_char, llvm_last_char_count, block_stack >>

llvm_frame == << var_data_ptr, llvm_block, llvm_index >>

llvm_streams == << llvm_stdin, llvm_stdout, llvm_sink >>

llvmvars == << llvm_program, llvm_locals, llvm_phase, llvm_panic, llvm_panic_arg, llvm_src,
               llvm_compile_calls, llvm_run_calls, llvm_frame, llvm_streams >>

vars == << bfvars, build, llvmvars >>

\* new(): a zeroed tape, no instructions.
NewMemory == [i \in 0 .. TapeSize - 1 |-> 0]

NewStats == [optimized_loop_count |-> 0, loop_count |-> 0]

NewCompiler == Compiler(<< >>, 0, NewStats, << >>, "NUL", 0)

\* BFProgram::new and BFLLVMProgram::new, each in a process that was given
\* the input stream in and whose writes on the standard output end as faults
\* tells.
NewProcess(in, faults) ==
  /\ sink = faults
  /\ llvm_sink = faults
  /\ memory = NewMemory
  /\ instructions = << >>
  /\ instr_count = 0
  /\ data_ptr = 0
  /\ pc = 0
  /\ stats = NewStats
  /\ last_char = "NUL"
  /\ last_char_count = 0
  /\ loop_stack = << >>
  /\ phase = "new"
  /\ panic = ""
  /\ panic_arg = 0
  /\ src = << >>
  /\ compile_calls = 0
  /\ run_calls = 0
  /\ input = in
  /\ stdin = in
  /\ stdout = << >>
  /\ llvm_memory = NewMemory
  /\ llvm_pc = 0
  /\ compiled = FALSE
  /\ ready = FALSE
  /\ llvm_bf_fn = << << >> >>
  /\ builder = 0
  /\ llvm_last_char = "NUL"
  /\ llvm_last_char_count = 0
  /\ block_stack = << >>
  /\ llvm_phase = "new"
  /\ llvm_panic = ""
  /\ llvm_panic_arg = 0
  /\ llvm_src = << >>
  /\ llvm_compile_calls = 0
  /\ llvm_run_calls = 0
  /\ var_data_ptr = 0
  /\ llvm_block = 0
  /\ llvm_index = 0
  /\ llvm_stdin = in
  /\ llvm_stdout = << >>

\* The same in a process whose writes all succeed.
New(in) == NewProcess(in, << >>)

\* compile is entered: its locals are initialised.  BFProgram keeps no
\* flag that tells a compiled program from a new one.
CompileStart ==
  /\ phase \in {"new", "compiled", "ran"}
  /\ phase' = "compile"
  /\ last_char' = "NUL"
  /\ last_char_count' = 0
  /\ loop_stack' = << >>
  /\ src' = << >>
  /\ compile_calls' = compile_calls + 1
  /\ UNCHANGED << program, panic, panic_arg, run_calls, streams, build, llvmvars >>

\* The compiler's state as the variables hold it, and the variables set
\* from a compiler's state.
CurrentCompiler ==
  Compiler(instructions, instr_count, stats, loop_stack, last_char, last_char_count)

SetCompiler(c) ==
  /\ instructions' = c.instructions
  /\ instr_count' = c.instr_count
  /\ stats' = c.stats
  /\ loop_stack' = c.loop_stack
  /\ last_char' = c.last_char
  /\ last_char_count' = c.last_char_count
  /\ panic' = c.panic
  /\ panic_arg' = c.panic_arg

\* The reader returns the byte ch.
ReadByte(ch) ==
  /\ phase = "compile"
  /\ src' = Append(src, ch)
  /\ LET c == compile_byte(CurrentCompiler, ch, nooptim)
     IN  /\ SetCompiler(c)
         /\ phase' = IF c.panic # "" THEN "panic" ELSE phase
  /\ UNCHANGED << memory, data_ptr, pc, compile_calls, run_calls, streams, build, llvmvars >>

\* The reader returns the bytes of buf in one read.
ReadChunk(buf) ==
  /\ phase = "compile"
  /\ buf # << >>
  /\ src' = src \o buf
  /\ LET c == compile_chunk(CurrentCompiler, buf, nooptim)
     IN  /\ SetCompiler(c)
         /\ phase' = IF c.panic # "" THEN "panic" ELSE phase
  /\ UNCHANGED << memory, data_ptr, pc, compile_calls, run_calls, streams, build, llvmvars >>

\* The reader returns Ok(0); the locals end with a call that returns.
ReadEOF ==
  /\ phase = "compile"
  /\ LET c == compile_eof(CurrentCompiler, nooptim)
     IN  IF c.panic # ""
         THEN SetCompiler(c) /\ phase' = "panic"
         ELSE /\ SetCompiler([c EXCEPT !.last_char = "NUL", !.last_char_count = 0])
              /\ phase' = "compiled"
  /\ UNCHANGED << memory, data_ptr, pc, src, compile_calls, run_calls, streams, build, llvmvars >>

\* The reader returns Err.
ReadError ==
  /\ phase = "compile"
  /\ phase' = "panic"
  /\ panic' = "Error while reading input"
  /\ UNCHANGED << program, locals, panic_arg, src, compile_calls, run_calls, streams,
                  build, llvmvars >>

\* -------------------------------------------------------- BFProgram::run

\* run is entered: the standard streams are locked.
RunStart ==
  /\ phase \in {"new", "compiled", "ran"}
  /\ phase' = "run"
  /\ run_calls' = run_calls + 1
  /\ UNCHANGED << program, locals, panic, panic_arg, src, compile_calls, streams, build, llvmvars >>

\* One turn of the while loop: _step, then pc += 1.
RunStep ==
  /\ phase = "run"
  /\ pc < Len(instructions)
  /\ LET m == _step([Machine(memory, data_ptr, pc, stdin, stdout) EXCEPT !.sink = sink],
                    At(instructions, pc), overflow_checks)
     IN  /\ memory' = m.memory
         /\ data_ptr' = m.data_ptr
         /\ stdin' = m.stdin
         /\ stdout' = m.stdout
         /\ sink' = m.sink
         /\ panic' = m.panic
         /\ IF m.panic # ""
            THEN phase' = "panic" /\ pc' = m.pc
            ELSE phase' = phase /\ pc' = m.pc + 1
  /\ UNCHANGED << instructions, instr_count, stats, locals, panic_arg, src, compile_calls,
                  run_calls, input, build, llvmvars >>

\* The while loop ends: run returns.
RunReturn ==
  /\ phase = "run"
  /\ ~(pc < Len(instructions))
  /\ phase' = "ran"
  /\ UNCHANGED << program, locals, panic, panic_arg, src, compile_calls, run_calls,
                  streams, build, llvmvars >>

\* --------------------------------------------------------- BFLLVMProgram

\* compile is entered: a program compiled before panics, any other is
\* marked compiled and the locals are initialised.
LLVMCompileStart ==
  /\ llvm_phase \in {"new", "compiled", "ran"}
  /\ llvm_compile_calls' = llvm_compile_calls + 1
  /\ IF compiled
     THEN /\ llvm_phase' = "panic"
          /\ llvm_panic' = "Cannot compile the same BFLLVMProgram twice."
          /\ UNCHANGED << llvm_program, llvm_locals, llvm_src >>
     ELSE /\ llvm_phase' = "compile"
          /\ compiled' = TRUE
          /\ llvm_last_char' = "NUL"
          /\ llvm_last_char_count' = 0
          /\ block_stack' = << >>
          /\ llvm_src' = << >>
          /\ UNCHANGED << llvm_memory, llvm_pc, ready, llvm_bf_fn, builder, llvm_panic >>
  /\ UNCHANGED << llvm_panic_arg, llvm_run_calls, llvm_frame, llvm_streams, bfvars, build >>

LLVMCurrentCompiler ==
  LLVMCompiler(llvm_bf_fn, builder, llvm_pc, block_stack, llvm_last_char,
               llvm_last_char_count, ready)

LLVMSetCompiler(c) ==
  /\ llvm_bf_fn' = c.llvm_bf_fn
  /\ builder' = c.builder
  /\ llvm_pc' = c.pc
  /\ block_stack' = c.block_stack
  /\ llvm_last_char' = c.last_char
  /\ llvm_last_char_count' = c.last_char_count
  /\ ready' = c.ready
  /\ llvm_panic' = c.panic
  /\ llvm_panic_arg' = c.panic_arg
  /\ llvm_phase' = IF c.panic # "" THEN "panic" ELSE IF c.ready THEN "compiled" ELSE llvm_phase

\* The reader returns the byte ch.
LLVMReadByte(ch) ==
  /\ llvm_phase = "compile"
  /\ llvm_src' = Append(llvm_src, ch)
  /\ LLVMSetCompiler(llvm_compile_byte(LLVMCurrentCompiler, ch))
  /\ UNCHANGED << llvm_memory, compiled, llvm_compile_calls, llvm_run_calls, llvm_frame,
                  llvm_streams, bfvars, build >>

\* The reader returns Ok(0).
LLVMReadEOF ==
  /\ llvm_phase = "compile"
  /\ LET c == llvm_compile_eof(LLVMCurrentCompiler)
     IN  IF c.panic # "" THEN LLVMSetCompiler(c)
         ELSE LLVMSetCompiler([c EXCEPT !.last_char = "NUL", !.last_char_count = 0])
  /\ UNCHANGED << llvm_memory, compiled, llvm_src, llvm_compile_calls, llvm_run_calls,
                  llvm_frame, llvm_streams, bfvars, build >>

\* The reader returns Err.
LLVMReadError ==
  /\ llvm_phase = "compile"
  /\ llvm_phase' = "panic"
  /\ llvm_panic' = "Error while reading input"
  /\ UNCHANGED << llvm_program, llvm_locals, llvm_panic_arg, llvm_src, llvm_compile_calls,
                  llvm_run_calls, llvm_frame, llvm_streams, bfvars, build >>

\* run that calls the function without a look at llvm_info.ready.
LLVMRunStart_NoCheck ==
  /\ \/ llvm_phase \in {"new", "compiled", "ran"}
     \/ llvm_phase = "panic" /\ ~ready
  /\ llvm_run_calls' = llvm_run_calls + 1
  /\ llvm_phase' = "run"
  /\ var_data_ptr' = 0
  /\ llvm_block' = 0
  /\ llvm_index' = 0
  /\ UNCHANGED << llvm_program, llvm_locals, llvm_panic, llvm_panic_arg, llvm_src,
                  llvm_compile_calls, llvm_streams, bfvars, build >>

\* run is entered, on a program that no call is running on (a caller may
\* have caught the panic of a compile or run call that found the program
\* not ready): it panics unless the engine is ready, and else calls the
\* function, whose entry block stores the tape's base to data_ptr.
LLVMRunStart ==
  /\ \/ llvm_phase \in {"new", "compiled", "ran"}
     \/ llvm_phase = "panic" /\ ~ready
  /\ llvm_run_calls' = llvm_run_calls + 1
  /\ IF ~ready
     THEN /\ llvm_phase' = "panic"
          /\ llvm_panic' = "LLVM is not ready!"
          /\ UNCHANGED llvm_frame
     ELSE /\ llvm_phase' = "run"
          /\ var_data_ptr' = 0
          /\ llvm_block' = 0
          /\ llvm_index' = 0
          /\ UNCHANGED llvm_panic
  /\ UNCHANGED << llvm_program, llvm_locals, llvm_panic_arg, llvm_src, llvm_compile_calls,
                  llvm_streams, bfvars, build >>

\* The instruction the running function is at.
LLVMCurrentInstr == At(At(llvm_bf_fn, llvm_block), llvm_index)

\* The function executes one instruction.
LLVMRunStep ==
  /\ llvm_phase = "run"
  /\ LLVMCurrentInstr.op # "RetVoid"
  /\ LET m == llvm_step([LLVMMachine(llvm_memory, var_data_ptr, llvm_block, llvm_index,
                                     llvm_stdin, llvm_stdout) EXCEPT !.sink = llvm_sink],
                        LLVMCurrentInstr)
     IN  /\ llvm_memory' = m.memory
         /\ var_data_ptr' = m.data_ptr
         /\ llvm_block' = m.block
         /\ llvm_index' = m.index
         /\ llvm_stdin' = m.stdin
         /\ llvm_stdout' = m.stdout
         /\ llvm_sink' = m.sink
         /\ llvm_panic' = m.panic
         /\ llvm_phase' = IF m.undefined THEN "undefined"
                          ELSE IF m.panic # "" THEN "panic" ELSE llvm_phase
  /\ UNCHANGED << llvm_pc, compiled, ready, llvm_bf_fn, builder, llvm_locals,
                  llvm_panic_arg, llvm_src, llvm_compile_calls, llvm_run_calls, bfvars,
                  build >>

\* The function returns, and run with it.
LLVMRunReturn ==
  /\ llvm_phase = "run"
  /\ LLVMCurrentInstr.op = "RetVoid"
  /\ llvm_phase' = "ran"
  /\ UNCHANGED << llvm_program, llvm_locals, llvm_panic, llvm_panic_arg, llvm_src,
                  llvm_compile_calls, llvm_run_calls, llvm_frame, llvm_streams, bfvars,
                  build >>

\* Once an ill-typed instruction is built, the LLVM library may abort while
\* building, fail to generate code, or generate code that does anything.
LLVMAnomaly ==
  /\ llvm_phase \in {"compile", "compiled", "run"}
  /\ IllTyped(llvm_bf_fn)
  /\ llvm_phase' = "undefined"
  /\ UNCHANGED << llvm_program, llvm_locals, llvm_panic, llvm_panic_arg, llvm_src,
                  llvm_compile_calls, llvm_run_calls, llvm_frame, llvm_streams, bfvars,
                  build >>

\* ---------------------------------------------------------- the environment

IsPrefix(s, t) == Len(s) <= Len(t) /\ SubSeq(t, 1, Len(s)) = s

\* Longer sources that are compiled as well.
Programs ==
  { << "[", "[", "-", "]", "]" >>,
    << "[", "[", "<", "]", "+", "]" >>,
    << "[", "-", "]", "]", "+" >>,
    << "[", "-", ">", "+", "<", "]" >>,
    << "+", "[", "[", "[", "-", "]" >> }

\* Longer sources that are compiled and run.
RunPrograms ==
  { << "+", ">", "+", ">", "+", ">", "[", "<", "]" >>,
    [i \in 1 .. TapeSize |-> ">"] \o << "<", "," >>,
    << "+", "[", ">", "+", "]" >>,
    << "+", "+", "+", "+", "+", "[", "-", "]" >>,
    << "+", "[", "-", ">", "+", "<", "]" >>,
    << "+", "[", "[", "-", "]", "]" >> }

\* Longer sources that are run by the interpreter and by the JIT.
JitPrograms ==
  { << ",", ".", ",", "." >>,
    << ",", "[", ".", ",", "]" >>,
    << "+", "+", "[", "-", ".", ".", "]" >>,
    << ">", "+", "[", "<", "]", ">", ".", "." >> }

\* The canonical Hello World program.
HelloWorld ==
  << "+", "+", "+", "+", "+", "+", "+", "+", "[", ">", "+", "+" >> \o
  << "+", "+", "[", ">", "+", "+", ">", "+", "+", "+", ">", "+" >> \o
  << "+", "+", ">", "+", "<", "<", "<", "<", "-", "]", ">", "+" >> \o
  << ">", "+", ">", "-", ">", ">", "+", "[", "<", "]", "<", "-" >> \o
  << "]", ">", ">", ".", ">", "-", "-", "-", ".", "+", "+", "+" >> \o
  << "+", "+", "+", "+", ".", ".", "+", "+", "+", ".", ">", ">" >> \o
  << ".", "<", "-", ".", "<", ".", "+", "+", "+", ".", "-", "-" >> \o
  << "-", "-", "-", "-", ".", "-", "-", "-", "-", "-", "-", "-" >> \o
  << "-", ".", ">", ">", "+", ".", ">", "+", "+", "." >>

\* The input streams of a run.
StdinChoices == { << >>, << 7 >>, << 255, 0 >> }

\* The peephole patterns, each behind a prefix that reads the first input
\* byte into the cell the loop starts on and, where the pattern has a
\* neighbour cell, the second byte into that one.
PeepholePrograms ==
  { << ",", "[", "-", "]" >>,
    << ",", "[", "[", "-", "]", "]" >>,
    << ",", ">", ",", "<", "[", "-", ">", "+", "<", "]" >>,
    << ">", ">", ",", "<", "<", ",", ">", ">", "[", "-", "<", "<", "+", ">", ">", "]" >>,
    << ",", ">", ">", ",", "<", "<", "[", "-", ">", ">", "-", "<", "<", "]" >>,
    << ">", ",", "<", ",", ">", "[", "-", "<", "-", ">", "]" >>,
    << ">", ">", ",", "<", ",", ">", "[", "<", "]" >>,
    << ">", ">", ",", "[", "<", "<", "]" >>,
    << ",", ">", ",", "<", "[", ">", "]" >>,
    << ",", "[", ">", ">", "]" >> }

\* The value read into the neighbour cell.
NeighbourValue == 200

\* The input streams of the peephole runs: every starting cell value.
PeepholeInputs == { << v, NeighbourValue >> : v \in 0 .. CellMod - 1 }

\* ------------------------------------------------------- specifications

\* Spec: one program is compiled once, from every source of at most
\* MaxSrcLen bytes and from the sources of Programs, in both settings of
\* the nooptim feature.
Init ==
  /\ New(<< >>)
  /\ overflow_checks = FALSE
  /\ nooptim \in BOOLEAN

Next ==
  \/ compile_calls = 0 /\ CompileStart
  \/ \E ch \in Bytes :
       /\ Len(src) < MaxSrcLen \/ \E t \in Programs : IsPrefix(Append(src, ch), t)
       /\ ReadByte(ch)
  \/ ReadEOF
  \/ ReadError

Spec == Init /\ [][Next]_vars

\* SpecRun: one program is compiled once and run, in both builds, from
\* every source of at most MaxRunSrcLen bytes and from the sources of
\* RunPrograms, on each of the input streams.
InitRun ==
  /\ \E in \in StdinChoices : New(in)
  /\ overflow_checks \in BOOLEAN
  /\ nooptim \in BOOLEAN

NextRun ==
  \/ compile_calls = 0 /\ CompileStart
  \/ \E ch \in Bytes :
       /\ Len(src) < MaxRunSrcLen \/ \E t \in RunPrograms : IsPrefix(Append(src, ch), t)
       /\ ReadByte(ch)
  \/ ReadEOF
  \/ ReadError
  \/ run_calls < MaxRunCalls /\ RunStart
  \/ RunStep
  \/ RunReturn

SpecRun == InitRun /\ [][NextRun]_vars

\* SpecPeephole: the sources of PeepholePrograms are compiled by a build with
\* the nooptim feature, which keeps every loop as written, and run once on
\* each of the input streams of PeepholeInputs, in the build whose
\* debug_assert! and overflow checks are on.
InitPeephole ==
  /\ \E in \in PeepholeInputs : New(in)
  /\ overflow_checks = TRUE
  /\ nooptim = TRUE

NextPeephole ==
  \/ compile_calls = 0 /\ CompileStart
  \/ \E ch \in Bytes :
       /\ \E t \in PeepholePrograms : IsPrefix(Append(src, ch), t)
       /\ ReadByte(ch)
  \/ ReadEOF
  \/ ReadError
  \/ run_calls = 0 /\ phase = "compiled" /\ RunStart
  \/ RunStep
  \/ RunReturn

SpecPeephole == InitPeephole /\ [][NextPeephole]_vars

\* SpecJit: a source is compiled and run once by the interpreter; once that
\* run has returned, a JIT program in a process with the same input stream
\* compiles the same source and runs it once.
NextJit ==
  \/ compile_calls = 0 /\ CompileStart
  \/ \E ch \in Bytes :
       /\ Len(src) < MaxJitSrcLen \/ \E t \in JitPrograms : IsPrefix(Append(src, ch), t)
       /\ ReadByte(ch)
  \/ ReadEOF
  \/ ReadError
  \/ run_calls = 0 /\ phase = "compiled" /\ RunStart
  \/ Len(stdout) < MaxOutput /\ RunStep
  \/ RunReturn
  \/ phase = "ran" /\ llvm_compile_calls = 0 /\ LLVMCompileStart
  \/ \E ch \in Bytes :
       /\ Len(llvm_src) < Len(src)
       /\ ch = src[Len(llvm_src) + 1]
       /\ LLVMReadByte(ch)
  \/ llvm_src = src /\ LLVMReadEOF
  \/ LLVMReadError
  \/ phase = "ran" /\ llvm_run_calls = 0 /\ LLVMRunStart
  \/ Len(llvm_stdout) < MaxOutput /\ LLVMRunStep
  \/ LLVMRunReturn
  \/ LLVMAnomaly

SpecJit == InitRun /\ [][NextJit]_vars

\* SpecRecompile: the process makes one kind of program, as main does, and
\* calls compile on it up to MaxCompileCalls times, each time on a source of
\* at most MaxRecompileSrcLen bytes.
NextRecompile ==
  \/ llvm_compile_calls = 0 /\ compile_calls < MaxCompileCalls /\ CompileStart
  \/ \E ch \in Bytes : Len(src) < MaxRecompileSrcLen /\ ReadByte(ch)
  \/ ReadEOF
  \/ ReadError
  \/ compile_calls = 0 /\ llvm_compile_calls < MaxCompileCalls /\ LLVMCompileStart
  \/ \E ch \in Bytes : Len(llvm_src) < MaxRecompileSrcLen /\ LLVMReadByte(ch)
  \/ LLVMReadEOF
  \/ LLVMReadError
  \/ LLVMAnomaly

SpecRecompile == Init /\ [][NextRecompile]_vars

\* SpecHello: the Hello World source is compiled and run once, in both
\* builds and with and without the nooptim feature.  run, once called,
\* keeps executing: its loop is the only thread.
NextHello ==
  \/ compile_calls = 0 /\ CompileStart
  \/ \E ch \in Bytes : IsPrefix(Append(src, ch), HelloWorld) /\ ReadByte(ch)
  \/ src = HelloWorld /\ ReadEOF
  \/ ReadError
  \/ run_calls = 0 /\ phase = "compiled" /\ RunStart
  \/ RunStep
  \/ RunReturn

SpecHello == InitRun /\ [][NextHello]_vars /\ WF_vars(RunStep) /\ WF_vars(RunReturn)

\* The buffers a read may return.
Chunks == UNION { [1 .. n -> Bytes] : n \in 1 .. MaxChunkLen }

\* SpecChunks: one program is compiled once from a reader that returns the
\* source in chunks, split anywhere.
NextChunks ==
  \/ compile_calls = 0 /\ CompileStart
  \/ \E buf \in Chunks : Len(src) + Len(buf) <= MaxChunkSrcLen /\ ReadChunk(buf)
  \/ ReadEOF
  \/ ReadError

SpecChunks == Init /\ [][NextChunks]_vars

\* SpecIo: the process makes one kind of program, compiles it once from a
\* source of at most MaxIoSrcLen bytes or from a source of IoPrograms, and
\* runs it once on a standard input that holds bytes and reads that fail,
\* and a standard output whose writes may fail.
IoInputs ==
  { << >>, << 65 >>, << IoError >>, << 65, IoError >>, << IoError, 66 >>, << 65, 66, 67 >> }

IoFaults == { << >>, << TRUE >>, << FALSE, TRUE >> }

IoPrograms ==
  { << "+", ",", ",", ",", "." >>,
    << "+", ".", ".", ".", "+" >> }

InitIo ==
  /\ \E in \in IoInputs : \E faults \in IoFaults : NewProcess(in, faults)
  /\ overflow_checks = TRUE
  /\ nooptim = FALSE

NextIo ==
  \/ llvm_compile_calls = 0 /\ compile_calls = 0 /\ CompileStart
  \/ \E ch \in Bytes :
       /\ Len(src) < MaxIoSrcLen \/ \E t \in IoPrograms : IsPrefix(Append(src, ch), t)
       /\ ReadByte(ch)
  \/ ReadEOF
  \/ ReadError
  \/ run_calls = 0 /\ phase = "compiled" /\ RunStart
  \/ RunStep
  \/ RunReturn
  \/ compile_calls = 0 /\ llvm_compile_calls = 0 /\ LLVMCompileStart
  \/ \E ch \in Bytes :
       /\ Len(llvm_src) < MaxIoSrcLen \/ \E t \in IoPrograms : IsPrefix(Append(llvm_src, ch), t)
       /\ LLVMReadByte(ch)
  \/ LLVMReadEOF
  \/ LLVMReadError
  \/ llvm_run_calls = 0 /\ llvm_phase = "compiled" /\ LLVMRunStart
  \/ LLVMRunStep
  \/ LLVMRunReturn
  \/ LLVMAnomaly

SpecIo == InitIo /\ [][NextIo]_vars

\* SpecWrap: a run of '+' or of '-' of every length up to MaxRunLen, behind
\* a ',' that reads the cell's starting value, and the source '-.', are
\* compiled and run once on every starting value, in the build whose
\* overflow checks are on.
PlusRun == << "," >> \o [i \in 1 .. MaxRunLen |-> "+"]

MinusRun == << "," >> \o [i \in 1 .. MaxRunLen |-> "-"]

WrapPrograms == { PlusRun, MinusRun, << "-", "." >> }

WrapInputs == { << v >> : v \in 0 .. CellMod - 1 }

InitWrap ==
  /\ \E in \in WrapInputs : New(in)
  /\ overflow_checks = TRUE
  /\ nooptim = FALSE

NextWrap ==
  \/ compile_calls = 0 /\ CompileStart
  \/ \E ch \in Bytes :
       /\ \E t \in WrapPrograms : IsPrefix(Append(src, ch), t)
       /\ ReadByte(ch)
  \/ ReadEOF
  \/ ReadError
  \/ run_calls = 0 /\ phase = "compiled" /\ RunStart
  \/ RunStep
  \/ RunReturn

SpecWrap == InitWrap /\ [][NextWrap]_vars

\* SpecMove: the sources made of a '+', a '>', b '+', a '<' and the loop
\* '[->+<]', for a in 1 .. MaxA and b in 1 .. MaxB, are compiled by a build
\* without the nooptim feature and run once, with overflow checks on and off.
MoveTail(b) == << ">" >> \o [i \in 1 .. b |-> "+"] \o << "<", "[", "-", ">", "+", "<", "]" >>

MoveSource(a, b) == [i \in 1 .. a |-> "+"] \o MoveTail(b)

\* The number of '+' that s starts with.
LeadingPlus(s) ==
  LET others == { i \in 1 .. Len(s) : s[i] # "+" }
  IN  IF others = {} THEN Len(s)
      ELSE (CHOOSE i \in others : \A j \in others : i <= j) - 1

\* s starts a source of the form above.
IsMovePrefix(s) ==
  LET a == LeadingPlus(s)
      rest == SubSeq(s, a + 1, Len(s))
  IN  /\ a <= MaxA
      /\ rest # << >> => a >= 1 /\ \E b \in 1 .. MaxB : IsPrefix(rest, MoveTail(b))

InitMove ==
  /\ New(<< >>)
  /\ overflow_checks \in BOOLEAN
  /\ nooptim = FALSE

NextMove ==
  \/ compile_calls = 0 /\ CompileStart
  \/ \E ch \in Bytes : IsMovePrefix(Append(src, ch)) /\ ReadByte(ch)
  \/ ReadEOF
  \/ ReadError
  \/ run_calls = 0 /\ phase = "compiled" /\ RunStart
  \/ RunStep
  \/ RunReturn

SpecMove == InitMove /\ [][NextMove]_vars

\* SpecJitLife: one JIT program; compile is called on it at most once, on
\* every source of at most MaxLifeSrcLen bytes, and run is called on it at
\* any time no call is running, before compile, after a compile that
\* returned and after one that panicked.
NextJitLife ==
  \/ llvm_compile_calls = 0 /\ LLVMCompileStart
  \/ \E ch \in Bytes : Len(llvm_src) < MaxLifeSrcLen /\ LLVMReadByte(ch)
  \/ LLVMReadEOF
  \/ LLVMReadError
  \/ llvm_run_calls < MaxLifeRunCalls /\ LLVMRunStart
  \/ LLVMRunStep
  \/ LLVMRunReturn
  \/ LLVMAnomaly

SpecJitLife == Init /\ [][NextJitLife]_vars

\* SpecEquiv: a source of at most MaxEquivSrcLen commands, or one of
\* EquivPrograms, is compiled and run once, with and without the nooptim
\* feature, with overflow checks on and off, on each of EquivInputs.
EquivPrograms ==
  { << ",", "[", ">", "+", "[", "-", "]", "<", "-", "]" >>,
    << ",", "[", "[", "-", "]", "]" >>,
    << "+", "[", "[", "-", "]", "+", "]" >>,
    << ",", ">", ",", "<", "[", "-", ">", "+", "<", "]", ">", "." >>,
    << ",", ">", ",", "[", "-", "<", "-", ">", "]", "<", "." >>,
    << ",", ">", ",", ">", ",", "[", "<", "]" >>,
    << ",", "[", ".", "[", "-", "]", "]" >>,
    << "-", "[", "-", "]", "." >>,
    << ",", "[", "+", "]" >>,
    << "+", "[", "<", "]" >>,
    << ",", "[", ">", ">", "]" >>,
    << "+", "[", "-", "<", "+", ">", "]" >>,
    << "[", "]", "+", "[", "]" >>,
    << "[", "-", "<", "+", ">", "]" >>,
    << "[", "-", "<", "-", ">", "]" >>,
    [i \in 1 .. TapeSize - 1 |-> ">"] \o << "[", "-", ">", "+", "<", "]" >>,
    [i \in 1 .. TapeSize - 1 |-> ">"] \o << "[", "-", ">", "-", "<", "]" >>,
    << ">", ",", "[", "-", "<", "+", ">", "]" >>,
    << ",", "[", "-", ">", "-", "<", "]" >> }

EquivInputs == { << >>, << 255, 1 >>, << 3, 0, 1 >> }

InitEquiv ==
  /\ \E in \in EquivInputs : New(in)
  /\ overflow_checks \in BOOLEAN
  /\ nooptim \in BOOLEAN

NextEquiv ==
  \/ compile_calls = 0 /\ CompileStart
  \/ \E ch \in Commands :
       /\ Len(src) < MaxEquivSrcLen \/ \E t \in EquivPrograms : IsPrefix(Append(src, ch), t)
       /\ ReadByte(ch)
  \/ ReadEOF
  \/ ReadError
  \/ run_calls = 0 /\ phase = "compiled" /\ RunStart
  \/ RunStep
  \/ RunReturn

SpecEquiv == InitEquiv /\ [][NextEquiv]_vars

\* SpecBodies: every source of at most MaxBodySrcLen commands out of '+',
\* '-', '<', '>', '[' and ']' is compiled, with and without the nooptim
\* feature: the loops of these sources have every body of up to five
\* commands.
BodyCommands == {"+", "-", "<", ">", "[", "]"}

InitBodies ==
  /\ New(<< >>)
  /\ overflow_checks = FALSE
  /\ nooptim \in BOOLEAN

NextBodies ==
  \/ compile_calls = 0 /\ CompileStart
  \/ \E ch \in BodyCommands : Len(src) < MaxBodySrcLen /\ ReadByte(ch)
  \/ ReadEOF
  \/ ReadError

SpecBodies == InitBodies /\ [][NextBodies]_vars

\* ------------------------------------------------------------------ claims

UnmatchedCloseMsg == "No matching '[' for ']'"

UnmatchedOpenMsg == "No matching ']' for '['"

ReadErrorMsg == "Error while reading input"

IsIndex(i) == i >= 0 /\ i < Len(instructions)

Rewritten ==
  {"ZeroCurrentCell", "AddCellValueRight", "AddCellValueLeft", "SubCellValueRight",
   "SubCellValueLeft", "FindZeroCellLeft", "FindZeroCellRight"}

\* C1: after a successful compile with the peephole pass on, every
\* LoopStart(t) at index i has i < t < len and a LoopEnd(i) at t, and every
\* LoopEnd(s) at index i has a LoopStart(i) at s.
C1_LoopsMatched ==
  (phase = "compiled" /\ ~nooptim) =>
    \A i \in 0 .. Len(instructions) - 1 :
      LET ins == At(instructions, i)
      IN  /\ ins.op = "LoopStart" =>
               /\ i < ins.arg
               /\ ins.arg < Len(instructions)
               /\ At(instructions, ins.arg) = LoopEnd(i)
          /\ ins.op = "LoopEnd" =>
               /\ IsIndex(ins.arg)
               /\ At(instructions, ins.arg) = LoopStart(i)

\* A compiled program whose surviving loop holds a rewritten inner loop:
\* the vector was truncated before the outer loop closed.
C1_Witness ==
  /\ phase = "compiled"
  /\ ~nooptim
  /\ stats.optimized_loop_count >= 1
  /\ \E i, j \in 0 .. Len(instructions) - 1 :
       /\ At(instructions, i).op = "LoopStart"
       /\ i < j
       /\ j < At(instructions, i).arg
       /\ At(instructions, j).op \in Rewritten

\* The indices of the LoopStart placeholders that were never patched: a
\* patched LoopStart holds the index of its LoopEnd, which is not 0.
Unpatched == {i \in 0 .. Len(instructions) - 1 : At(instructions, i) = LoopStart(0)}

Min(S) == CHOOSE x \in S : \A y \in S : x <= y

Max(S) == CHOOSE x \in S : \A y \in S : x >= y

\* The bracket depth at the end of s, or -1 once a ']' had no open '['.
RECURSIVE Scan(_, _)
Scan(s, d) ==
  IF d < 0 THEN -1
  ELSE IF s = << >> THEN d
  ELSE Scan(Tail(s), d + (IF Head(s) = "[" THEN 1 ELSE IF Head(s) = "]" THEN -1 ELSE 0))

Balanced(s) == Scan(s, 0) = 0

\* C8 as claimed: the panic for an unmatched '[' names the index of the
\* first (outermost) unmatched open bracket.
C8_NamesFirstUnmatched ==
  (phase = "panic" /\ panic = UnmatchedOpenMsg) =>
    Unpatched # {} /\ panic_arg = Min(Unpatched)

\* C8 as amended: a source that ends with an unmatched '[' does not
\* compile, and the panic names the index of the last (innermost)
\* unmatched open bracket.
C8_NamesLastUnmatched ==
  /\ (phase = "panic" /\ panic = UnmatchedOpenMsg) =>
       Unpatched # {} /\ panic_arg = Max(Unpatched)
  /\ phase = "compiled" => Scan(src, 0) <= 0

\* The panic with two open brackets unmatched.
C8_Witness ==
  /\ phase = "panic"
  /\ panic = UnmatchedOpenMsg
  /\ Cardinality(Unpatched) >= 2

\* The commands of the source that were handed to push_instr: all but the
\* pending run.
Pushed ==
  LET cmds == SelectSeq(src, valid_bf_char)
  IN  SubSeq(cmds, 1, Len(cmds) - last_char_count)

\* C9: compile succeeds exactly on the sources with balanced brackets: a
\* ']' without an open '[' panics when its run is pushed, an '[' never
\* closed panics at the end of the source, and no balanced source panics
\* over its brackets.
C9_CompilesIffBalanced ==
  /\ phase = "compiled" => Balanced(src)
  /\ phase = "compile" => Scan(Pushed, 0) >= 0
  /\ (phase = "panic" /\ panic = UnmatchedCloseMsg) => Scan(src, 0) < 0
  /\ (phase = "panic" /\ panic = UnmatchedOpenMsg) => Scan(src, 0) > 0
  /\ (phase = "panic" /\ Balanced(src)) => panic = ReadErrorMsg

\* The source [-]] : the second ']' of the run panics after the first one
\* closed and rewrote the loop.
C9_Witness ==
  /\ phase = "panic"
  /\ panic = UnmatchedCloseMsg
  /\ src = << "[", "-", "]", "]" >>
  /\ stats.optimized_loop_count = 1

\* The instructions run one after the other on m, up to the first panic: a
\* run of a program without loops.
RECURSIVE RunStraight(_, _, _)
RunStraight(instrs, m, oc) ==
  IF instrs = << >> \/ m.panic # "" THEN m
  ELSE RunStraight(Tail(instrs), _step(m, Head(instrs), oc), oc)

\* The unfused program of a source without brackets: one instruction of
\* count 1 for every command.
Unfused(s) ==
  [i \in 1 .. Len(s) |->
     CASE s[i] = ">" -> IncPC(1)
       [] s[i] = "<" -> DecPC(1)
       [] s[i] = "+" -> IncVal(1)
       [] s[i] = "-" -> DecVal(1)
       [] s[i] = "." -> Output(1)
       [] s[i] = "," -> Input(1)]

SrcCommands == SelectSeq(src, valid_bf_char)

NoBrackets == \A i \in 1 .. Len(src) : src[i] \notin {"[", "]"}

\* The machine a first run starts on.
FreshMachine == Machine(NewMemory, 0, 0, input, << >>)

RECURSIVE SumArgs(_)
SumArgs(instrs) == IF instrs = << >> THEN 0 ELSE Head(instrs).arg + SumArgs(Tail(instrs))

\* A panic raised by run, not by compile.
RunPanic ==
  phase = "panic" /\ panic \notin {UnmatchedCloseMsg, UnmatchedOpenMsg, ReadErrorMsg}

\* C3: for a source without brackets the compiled program holds one counted
\* instruction per maximal run, and its run ends as the run of the unfused
\* program does: same output, same input left, same tape and data pointer,
\* or the same panic after the same output.
C3_FusedMatchesUnfused ==
  LET r == RunStraight(Unfused(SrcCommands), FreshMachine, overflow_checks)
  IN  NoBrackets =>
        /\ phase \in {"compiled", "run", "ran"} =>
             /\ \A i \in 1 .. Len(instructions) - 1 :
                  instructions[i].op # instructions[i + 1].op
             /\ SumArgs(instructions) = Len(SrcCommands)
        /\ phase = "ran" =>
             /\ r.panic = ""
             /\ r.memory = memory
             /\ r.data_ptr = data_ptr
             /\ r.stdout = stdout
             /\ r.stdin = stdin
        /\ RunPanic =>
             /\ r.panic = panic
             /\ r.memory = memory
             /\ r.stdout = stdout
             /\ r.stdin = stdin

\* A finished run of a fused instruction of count 2 or more that read
\* input and wrote output.
C3_Witness ==
  /\ NoBrackets
  /\ phase = "ran"
  /\ \E i \in 1 .. Len(instructions) : instructions[i].arg >= 2
  /\ stdout # << >>
  /\ stdin # input

\* C6 as claimed: in every state of a run that has not aborted the data
\* pointer is an index of the tape.
C6_DataPtrInTape ==
  phase \in {"run", "ran"} => InTape(data_ptr)

FindZeroSource == << "+", ">", "+", ">", "+", ">", "[", "<", "]" >>

\* C10 as claimed: the run of +>+>+>[<] ends with the data pointer at 0.
C10_EndsAtZero ==
  (src = FindZeroSource /\ ~nooptim /\ phase = "ran") =>
    /\ \E i \in 1 .. Len(instructions) : instructions[i] = FindZeroCellLeft(1)
    /\ data_ptr = 0

\* C10 as amended: the program compiled from +>+>+>[<] ends with
\* FindZeroCellLeft(1); that instruction is met with the data pointer at 3
\* on a zero cell and leaves it at 3, and the run ends there.
C10_EndsAtThree ==
  (src = FindZeroSource /\ ~nooptim) =>
    /\ phase \in {"compiled", "run", "ran"} =>
         /\ Len(instructions) = 7
         /\ instructions[7] = FindZeroCellLeft(1)
    /\ (phase = "run" /\ pc >= 6) => data_ptr = 3 /\ memory[3] = 0
    /\ phase = "ran" => data_ptr = 3
    /\ phase = "panic" => panic = ReadErrorMsg

C10_Witness ==
  /\ src = FindZeroSource
  /\ ~nooptim
  /\ phase = "ran"
  /\ data_ptr = 3

\* The program a build without the nooptim feature compiles from the
\* source read, and its run from a fresh machine on the same input.
OptimizedProgram == compile_bytes(NewCompiler, src, FALSE).instructions

OptimizedRun == RunStraight(OptimizedProgram, FreshMachine, overflow_checks)

\* C2: for each peephole pattern, at every starting cell value 0..255, the
\* run of the loop as written (LoopStart, body, LoopEnd, to termination)
\* ends with the tape and the data pointer that the single rewritten
\* instruction leaves when _step executes it in the loop's place.
C2_RewriteMatchesLoop ==
  (src \in PeepholePrograms /\ phase = "ran") =>
    /\ \E i \in 1 .. Len(instructions) : instructions[i].op = "LoopStart"
    /\ \A i \in 1 .. Len(OptimizedProgram) : OptimizedProgram[i].op # "LoopStart"
    /\ OptimizedProgram[Len(OptimizedProgram)].op \in Rewritten
    /\ OptimizedRun.panic = ""
    /\ OptimizedRun.memory = memory
    /\ OptimizedRun.data_ptr = data_ptr

\* The loop [-<<+>>] has run to its end from the cell value 255 and the
\* target cell wrapped around; its rewrite is AddCellValueLeft(2).
C2_Witness ==
  /\ src \in PeepholePrograms
  /\ phase = "ran"
  /\ input[1] = 255
  /\ OptimizedProgram[Len(OptimizedProgram)] = AddCellValueLeft(2)
  /\ memory[0] = (NeighbourValue + 255) % CellMod
  /\ memory[2] = 0

\* The number of elements of s that satisfy Test.
Count(s, Test(_)) == Len(SelectSeq(s, Test))

IsLeft(ch) == ch = "<"

IsRight(ch) == ch = ">"

IsOpen(ch) == ch = "["

IsDot(ch) == ch = "."

IsComma(ch) == ch = ","

\* A source whose data pointer cannot leave the tape: it never moves left,
\* and it moves right fewer than TapeSize times, never inside a loop.
StaysInTape(s) ==
  /\ Count(s, IsLeft) = 0
  /\ Count(s, IsRight) < TapeSize
  /\ Count(s, IsRight) = 0 \/ Count(s, IsOpen) = 0

\* C4 as claimed: when the interpreter and the JIT have both run a source
\* that keeps the data pointer in the tape, on the same input, they have
\* written the same bytes.
C4_SameOutput ==
  (phase = "ran" /\ llvm_phase = "ran" /\ llvm_src = src /\ StaysInTape(src)) =>
    llvm_stdout = stdout

\* Every instruction of the function, block after block.
RECURSIVE Flatten(_)
Flatten(fn) == IF fn = << >> THEN << >> ELSE Head(fn) \o Flatten(Tail(fn))

IsCallOutput(ins) == ins.op = "CallOutput"

IsCallInput(ins) == ins.op = "CallInput"

\* C5 as claimed: the function built from a source holds one call of
\* __bf_print_output for every '.' and one call of __bf_get_input for every
\* ',' of the source: n calls for a run of n.
C5_CallsPerCommand ==
  llvm_phase = "compiled" =>
    /\ Count(Flatten(llvm_bf_fn), IsCallOutput) = Count(llvm_src, IsDot)
    /\ Count(Flatten(llvm_bf_fn), IsCallInput) = Count(llvm_src, IsComma)

DoubleCompileMsg == "Cannot compile the same BFLLVMProgram twice."

\* C7 as claimed: a second compile call on a program panics at once and
\* leaves the program's instructions and counters as they were, on a
\* BFProgram and on a BFLLVMProgram alike.
C7_SecondCompileAborts ==
  [][/\ (compile_calls >= 1 /\ compile_calls' = compile_calls + 1) => phase' = "panic"
     /\ compile_calls' >= 2 => UNCHANGED << instructions, instr_count, stats >>
     /\ (llvm_compile_calls >= 1 /\ llvm_compile_calls' = llvm_compile_calls + 1) =>
          llvm_phase' = "panic" /\ llvm_panic' = DoubleCompileMsg
     /\ llvm_compile_calls' >= 2 => UNCHANGED << llvm_bf_fn, llvm_pc >>]_vars

\* "Hello World!" and a newline.
HelloBytes == << 72, 101, 108, 108, 111, 32, 87, 111, 114, 108, 100, 33, 10 >>

\* C11: the Hello World source, compiled with the peephole pass on, holds
\* FindZeroCellLeft(1); its run never panics, writes a prefix of
\* "Hello World!\n" at every moment and reads nothing, and it ends, with
\* exactly the 13 bytes written.
C11_HelloWorld ==
  /\ [](( src = HelloWorld /\ ~nooptim /\ phase \in {"compiled", "run", "ran"}) =>
          /\ \E i \in 1 .. Len(instructions) : instructions[i] = FindZeroCellLeft(1)
          /\ IsPrefix(stdout, HelloBytes)
          /\ stdin = input
          /\ phase = "ran" => stdout = HelloBytes)
  /\ []((src = HelloWorld /\ ~nooptim /\ phase = "panic") => panic = ReadErrorMsg)
  /\ (src = HelloWorld /\ ~nooptim /\ phase = "run") ~> (phase = "ran")

\* The optimized Hello World program has run to its end with an input
\* stream that holds a byte.
C11_Witness ==
  /\ src = HelloWorld
  /\ ~nooptim
  /\ phase = "ran"
  /\ stdout = HelloBytes
  /\ input # << >>

\* The program compiled in one read from the command bytes of the source.
Canonical == compile_bytes(NewCompiler, SrcCommands, nooptim)

\* C12: however the reader split the source into chunks and whatever bytes
\* that are no commands it holds, a successful compile leaves the
\* instructions, the raw count and the stats that one read of the command
\* bytes alone gives; two programs compiled from one source hold the same.
C12_ChunkingInvisible ==
  phase = "compiled" =>
    /\ Canonical.panic = ""
    /\ instructions = Canonical.instructions
    /\ instr_count = Canonical.instr_count
    /\ stats = Canonical.stats

\* A compiled source that holds a byte that is no command inside a run of
\* two equal commands: the run was fused all the same.
C12_Witness ==
  /\ phase = "compiled"
  /\ \E i \in 1 .. Len(src) - 2 :
       src[i] = "-" /\ ~valid_bf_char(src[i + 1]) /\ src[i + 2] = "-"
  /\ instructions = << DecVal(2) >>

\* ------------------------------------------------------------------- C13

\* What a cell that held old holds after the reads evs: a byte read is
\* stored, a read that fails stores nothing.
RECURSIVE Stored(_, _)
Stored(evs, old) ==
  IF evs = << >> THEN old
  ELSE Stored(Tail(evs), IF Head(evs) = IoError THEN old ELSE Head(evs))

\* Every write on the standard output to come succeeds.
SinkHealthy == \A i \in 1 .. Len(sink) : ~sink[i]

OnlyProgramBytes(s) == \A i \in 1 .. Len(s) : s[i] \in 0 .. CellMod - 1

\* C15: a write of an output byte that fails is dropped and is not fatal:
\* nothing is added to the standard output, not a diagnostic either, and
\* execution continues, in the interpreter's Output instruction as in the
\* JIT helper __bf_print_output.
C15_WriteFailureNonFatal ==
  [][/\ (/\ phase = "run"
         /\ pc < Len(instructions)
         /\ At(instructions, pc).op = "Output"
         /\ InTape(data_ptr)
         /\ sink # << >> /\ Head(sink))
        => /\ phase' = "run"
           /\ pc' = pc + 1
           /\ OnlyProgramBytes(stdout')
     /\ (/\ llvm_phase = "run"
         /\ ~IllTyped(llvm_bf_fn)
         /\ LLVMCurrentInstr.op = "CallOutput"
         /\ InTape(var_data_ptr)
         /\ llvm_sink # << >> /\ Head(llvm_sink))
        => /\ llvm_phase' = "run"
           /\ llvm_stdout' = llvm_stdout]_vars

\* ------------------------------------------------------------------- C14

\* a and b differ by a multiple of 256.
Congruent(a, b) == \E k \in -2 .. 2 : a = b + k * CellMod

\* C14: cell arithmetic is modulo 256 for every run length: a run of n '+'
\* compiles to IncVal(n) and leaves tape[dp] = (old + n) mod 256, a run of n
\* '-' compiles to DecVal(n) and leaves tape[dp] = (old - n) mod 256, for
\* every old in 0..255 and every n from 1 to MaxRunLen, which is past 256;
\* and the source '-.' outputs the byte 255.
C14_ModularArithmetic ==
  phase = "ran"
  => /\ memory[0] \in 0 .. CellMod - 1
     /\ \A n \in 1 .. MaxRunLen :
          /\ src = SubSeq(PlusRun, 1, n + 1)
             => /\ instructions = << Input(1), IncVal(n) >>
                /\ Congruent(memory[0], input[1] + n)
          /\ src = SubSeq(MinusRun, 1, n + 1)
             => /\ instructions = << Input(1), DecVal(n) >>
                /\ Congruent(memory[0], input[1] - n)
     /\ src = << "-", "." >> => memory[0] = CellMod - 1 /\ stdout = << CellMod - 1 >>

\* A run of 257 '-' has taken a cell that held 0 to 255.
C14_Witness ==
  /\ phase = "ran"
  /\ instructions = << Input(1), DecVal(CellMod + 1) >>
  /\ input = << 0 >>
  /\ memory[0] = CellMod - 1

\* ------------------------------------------------------------------- C16

FiveThenZero == << "+", "+", "+", "+", "+", "[", "-", "]" >>

\* The loop whose LoopStart is at index i of instrs, brackets and all, has a
\* body that matches a peephole pattern.
MatchesPattern(instrs, i) ==
  /\ At(instrs, i).op = "LoopStart"
  /\ At(instrs, i).arg < Len(instrs)
  /\ OPTIMIZATIONS(SubSeq(instrs, i + 2, At(instrs, i).arg)) # << >>

\* C16: in a build without the nooptim feature, when one ']' is pushed and
\* closes a loop whose body matches a peephole pattern, the LoopStart, the
\* body and the LoopEnd are replaced by exactly one rewritten instruction at
\* the former LoopStart index, and optimized_loop_count grows by exactly 1;
\* no loop whose body matches a pattern is left in a compiled program; and
\* the source '+++++[-]' compiles to [IncVal(5), ZeroCurrentCell] with
\* optimized_loop_count = 1 and runs to tape[0] = 0 with empty output.
C16_LoopReplacedByOne ==
  /\ [][(/\ phase = "compile"
         /\ ~nooptim
         /\ last_char = "]"
         /\ last_char_count = 1
         /\ loop_stack # << >>
         /\ instructions' # instructions
         /\ OPTIMIZATIONS(SubSeq(instructions, loop_stack[Len(loop_stack)] + 2,
                                 Len(instructions))) # << >>)
        => LET loop_start == loop_stack[Len(loop_stack)]
           IN  /\ Len(instructions') = loop_start + 1
               /\ SubSeq(instructions', 1, loop_start) = SubSeq(instructions, 1, loop_start)
               /\ At(instructions', loop_start).op \in Rewritten
               /\ stats'.optimized_loop_count = stats.optimized_loop_count + 1
               /\ stats'.loop_count = stats.loop_count + 1]_vars
  /\ []((phase \in {"compiled", "run", "ran"} /\ ~nooptim)
        => /\ \A i \in 0 .. Len(instructions) - 1 : ~MatchesPattern(instructions, i)
           /\ src = FiveThenZero
              => /\ instructions = << IncVal(5), ZeroCurrentCell >>
                 /\ stats.optimized_loop_count = 1
                 /\ phase = "ran" => memory[0] = 0 /\ stdout = << >>)

\* '+++++[-]' was compiled to two instructions and run.
C16_Witness ==
  /\ phase = "ran"
  /\ ~nooptim
  /\ src = FiveThenZero
  /\ instructions = << IncVal(5), ZeroCurrentCell >>
  /\ stats = [optimized_loop_count |-> 1, loop_count |-> 1]
  /\ memory[0] = 0

\* ------------------------------------------------------------------- C17

\* C17: a source made of a '+', '>', b '+', '<' and '[->+<]', a and b at
\* least 1, compiles to an IR that holds AddCellValueRight(1) and no loop
\* bracket, and its run ends with tape[0] = 0, tape[1] = (a + b) mod 256 and
\* DP = 0; for a = 4 and b = 3 tape[1] ends as 7.
C17_MoveRight ==
  LET a == LeadingPlus(src)
      b == Len(src) - a - 8
  IN  (/\ phase \in {"compiled", "run", "ran"}
       /\ a >= 1
       /\ b >= 1
       /\ src = MoveSource(a, b))
      => /\ \E i \in 1 .. Len(instructions) : instructions[i] = AddCellValueRight(1)
         /\ \A i \in 1 .. Len(instructions) : instructions[i].op \notin {"LoopStart", "LoopEnd"}
         /\ phase = "ran"
            => /\ memory[0] = 0
               /\ memory[1] \in 0 .. CellMod - 1
               /\ Congruent(memory[1], a + b)
               /\ a = 4 /\ b = 3 => memory[1] = 7
               /\ data_ptr = 0

\* 255 and 3 were added up to 2 in the neighbour cell.
C17_Witness ==
  /\ phase = "ran"
  /\ src = MoveSource(CellMod - 1, 3)
  /\ instructions = << IncVal(CellMod - 1), IncPC(1), IncVal(3), DecPC(1), AddCellValueRight(1) >>
  /\ memory[0] = 0
  /\ memory[1] = 2
  /\ data_ptr = 0

\* ------------------------------------------------------------------- C18

\* get_instr_count(): the field, as it is.
get_instr_count == instr_count

\* The runs of equal command bytes of the command sequence s, as pairs of
\* the byte and the run's length.
RECURSIVE Tokens(_)
Tokens(s) ==
  IF s = << >> THEN << >>
  ELSE LET rest == Tokens(Tail(s))
       IN  IF rest # << >> /\ rest[1][1] = Head(s)
           THEN << << Head(s), rest[1][2] + 1 >> >> \o Tail(rest)
           ELSE << << Head(s), 1 >> >> \o rest

\* The run lengths of the tokens that are no bracket, plus 1 for each
\* bracket a bracket token stands for.
RECURSIVE TokenSum(_)
TokenSum(ts) ==
  IF ts = << >> THEN 0
  ELSE Head(ts)[2] + TokenSum(Tail(ts))

\* C18: after one successful BFProgram::compile, get_instr_count() is the
\* number of bytes of the source that are one of the eight commands, which
\* is the sum of the run lengths of its fused tokens with every bracket
\* counted once, whatever the peephole pass removed; while compile runs, it
\* is that number for the runs pushed so far.
C18_InstrCountIsCommandBytes ==
  /\ phase = "compiled"
     => /\ get_instr_count = Len(SrcCommands)
        /\ get_instr_count = TokenSum(Tokens(SrcCommands))
  /\ phase = "compile" => get_instr_count = Len(Pushed)

\* A compiled source of four command bytes, among them a loop that the
\* peephole pass rewrote to one instruction: two instructions, count 4.
C18_Witness ==
  /\ phase = "compiled"
  /\ ~nooptim
  /\ src = << "[", "-", "]", "+" >>
  /\ instructions = << ZeroCurrentCell, IncVal(1) >>
  /\ get_instr_count = 4

\* ------------------------------------------------------------------- C19

\* C19: run may be called several times on one compiled program, and every
\* call, the second and later ones too, executes the program from its first
\* instruction: a call starts at instruction 0, and a second run of '.'
\* has written a second byte.
C19_EveryRunFromStart ==
  /\ [][(phase \in {"compiled", "ran"} /\ phase' = "run") => pc' = 0]_vars
  /\ []((phase = "ran" /\ run_calls = 2 /\ instructions = << Output(1) >>)
        => Len(stdout) = 2)

\* ------------------------------------------------------------------- C20

\* The panics that end a compile call before finalize_llvm_info.
CompileAborts ==
  {"Error while reading input", "No matching ']' for '['", "No matching '[' for ']'"}

\* C20: run on a JIT program whose compile has not completed (never
\* called, or ended by a read error or an unmatched bracket) is fatal and
\* never calls the compiled function: such a program is not ready, a run
\* call on a program that is not ready panics with "LLVM is not ready!" and
\* leaves the tape, the function's frame and the streams alone, and the
\* function runs only on a program that is ready.
C20_RunBeforeCompileIsFatal ==
  /\ []((\/ llvm_compile_calls = 0
         \/ llvm_phase = "compile"
         \/ llvm_phase = "panic" /\ llvm_panic \in CompileAborts) => ~ready)
  /\ [](llvm_phase = "run" => ready /\ llvm_compile_calls = 1)
  /\ [][(llvm_run_calls' = llvm_run_calls + 1 /\ ~ready)
        => /\ llvm_phase' = "panic"
           /\ llvm_panic' = "LLVM is not ready!"
           /\ UNCHANGED << llvm_memory, llvm_frame, llvm_streams >>]_vars

\* compile panicked on the unmatched '[' of its source, and the run call
\* that followed panicked in its turn.
C20_Witness ==
  /\ llvm_phase = "panic"
  /\ llvm_panic = "LLVM is not ready!"
  /\ llvm_compile_calls = 1
  /\ llvm_src = << "[" >>
  /\ llvm_run_calls = 1
  /\ ~ready

\* ------------------------------------------------------------------- C21

\* run on the program instrs from the machine m, followed for at most fuel
\* instructions (fuel is 1 or more): the machine it stops on.  The turns of
\* the while loop are taken half of them and then the other half.
RECURSIVE RunFuel(_, _, _, _)
RunFuel(instrs, m, oc, fuel) ==
  IF m.panic # "" \/ ~(m.pc < Len(instrs)) THEN m
  ELSE IF fuel <= 1
  THEN LET n == _step(m, At(instrs, m.pc), oc)
       IN  IF n.panic # "" THEN n ELSE [n EXCEPT !.pc = @ + 1]
  ELSE RunFuel(instrs, RunFuel(instrs, m, oc, fuel \div 2), oc, fuel - (fuel \div 2))

\* C21: the run of the program compiled with the peephole pass and the run
\* of the program compiled without it, from one source on one input, end
\* alike: when one returns the other returns, with the same output, the
\* same input left, the same tape and the same DP; and when one panics,
\* which takes a DP outside the tape, the other panics too.  A run that
\* never ends in one build never ends in the other.
C21_PeepholeEquivalent ==
  LET other == compile_bytes(NewCompiler, src, ~nooptim).instructions
      r == RunFuel(other, FreshMachine, overflow_checks, MaxEquivSteps)
  IN  /\ phase = "ran"
         => /\ r.panic = ""
            /\ r.pc = Len(other)
            /\ r.stdout = stdout
            /\ r.stdin = stdin
            /\ r.memory = memory
            /\ r.data_ptr = data_ptr
      /\ RunPanic
         => /\ r.panic # ""
            /\ r.stdout = stdout
            /\ r.stdin = stdin

\* The build with the pass has run a loop that holds a rewritten loop: the
\* outer loop is there, the inner one is a ZeroCurrentCell.
C21_Witness ==
  /\ phase = "ran"
  /\ ~nooptim
  /\ src = << ",", "[", ">", "+", "[", "-", "]", "<", "-", "]" >>
  /\ input = << 255, 1 >>
  /\ instructions[5] = ZeroCurrentCell
  /\ \E i \in 1 .. Len(instructions) : instructions[i].op = "LoopEnd"
  /\ memory[0] = 0

\* ------------------------------------------------------------------- C22

\* run is about to execute an instruction of kind op on a cell of the tape.
Executing(op) ==
  /\ phase = "run"
  /\ pc < Len(instructions)
  /\ At(instructions, pc).op = op
  /\ InTape(data_ptr)

\* C22: LoopStart(t) on a cell that holds 0 is followed by the instruction
\* at t + 1, the one behind the matching LoopEnd, and no instruction of the
\* body runs; LoopEnd(s) on a cell that does not hold 0 is followed by the
\* instruction at s + 1, the first of the body, without the LoopStart being
\* executed again; in the other two cases execution goes to the next
\* index.  Neither changes the tape, DP or the streams.
C22_LoopControl ==
  [][/\ Executing("LoopStart")
        => LET t == At(instructions, pc).arg
           IN  /\ At(instructions, t) = LoopEnd(pc)
               /\ pc' = IF memory[data_ptr] = 0 THEN t + 1 ELSE pc + 1
               /\ phase' = "run"
               /\ UNCHANGED << memory, data_ptr, streams >>
     /\ Executing("LoopEnd")
        => LET s == At(instructions, pc).arg
           IN  /\ At(instructions, s) = LoopStart(pc)
               /\ pc' = IF memory[data_ptr] # 0 THEN s + 1 ELSE pc + 1
               /\ phase' = "run"
               /\ UNCHANGED << memory, data_ptr, streams >>]_vars

\* The loop of ',[+]' went round: the cell that was read as 3 holds 4 and
\* run is at the first instruction of the body, the one behind the
\* LoopStart.
C22_Witness ==
  /\ phase = "run"
  /\ instructions = << Input(1), LoopStart(3), IncVal(1), LoopEnd(1) >>
  /\ input = << 3, 0, 1 >>
  /\ pc = 2
  /\ memory[0] = 4

\* ------------------------------------------------------------------- C23

MoveData == {"AddCellValueRight", "AddCellValueLeft", "SubCellValueRight", "SubCellValueLeft"}

\* The cell a move-data instruction adds to or subtracts from.
Target(ins) ==
  IF ins.op \in {"AddCellValueRight", "SubCellValueRight"}
  THEN data_ptr + ins.arg ELSE data_ptr - ins.arg

\* C23: a move-data instruction on a cell that holds 0 changes nothing, no
\* cell and not DP, and fails no bounds test, also where its target lies
\* outside the tape (dp + d >= TapeSize, or dp < d); on a cell that does
\* not hold 0 it adds the cell to the target or subtracts it, sets the cell
\* to 0, changes no other cell and leaves DP alone.
C23_MoveDataFrame ==
  [][\A op \in MoveData :
       Executing(op)
       => LET ins == At(instructions, pc)
              target == Target(ins)
              old == memory[data_ptr]
          IN  /\ data_ptr' = data_ptr
              /\ UNCHANGED streams
              /\ old = 0 => /\ memory' = memory
                            /\ phase' = "run"
                            /\ pc' = pc + 1
              /\ (old # 0 /\ InTape(target))
                 => /\ phase' = "run"
                    /\ pc' = pc + 1
                    /\ memory'[data_ptr] = 0
                    /\ memory'[target] \in 0 .. CellMod - 1
                    /\ Congruent(memory'[target],
                                 IF op \in {"AddCellValueRight", "AddCellValueLeft"}
                                 THEN memory[target] + old ELSE memory[target] - old)
                    /\ \A c \in 0 .. TapeSize - 1 :
                         c \notin {data_ptr, target} => memory'[c] = memory[c]]_vars

\* In the build with debug assertions, AddCellValueLeft(1) was executed on
\* cell 0, which held 0, and the run returned with nothing changed.
C23_Witness ==
  /\ phase = "ran"
  /\ overflow_checks
  /\ instructions = << AddCellValueLeft(1) >>
  /\ data_ptr = 0
  /\ memory = NewMemory

\* ------------------------------------------------------------------- C24

\* The rewriters tried in the canonical order: FindZero, ClearCell, MoveData.
CanonicalOrder(window) ==
  IF optimize_find_zero(window) # << >> THEN optimize_find_zero(window)
  ELSE IF optimize_zero(window) # << >> THEN optimize_zero(window)
  ELSE optimize_move_data(window)

\* The rewriters that match window.
Matching(window) ==
  (IF optimize_zero(window) # << >> THEN {"optimize_zero"} ELSE {})
  \cup (IF optimize_move_data(window) # << >> THEN {"optimize_move_data"} ELSE {})
  \cup (IF optimize_find_zero(window) # << >> THEN {"optimize_find_zero"} ELSE {})

\* The instructions behind the innermost open LoopStart: the body of the
\* loop that a ']' pushed now would close.
OpenBody == SubSeq(instructions, loop_stack[Len(loop_stack)] + 2, Len(instructions))

\* The source s was compiled and its loop was left as it was written, with
\* the body given.
LeftAsLoop(s, body) ==
  (phase = "compiled" /\ ~nooptim /\ src = s)
  => instructions = << LoopStart(Len(body) + 1) >> \o body \o << LoopEnd(0) >>

\* C24: on every loop body the rewrite chosen in the code's order
\* (optimize_zero, optimize_move_data, optimize_find_zero) is the rewrite
\* chosen in the canonical order, at most one rewriter matching; and a body
\* that matches none, as in '[+]', '[--]', '[->+<<]' and '[->>+<]', is left
\* as an ordinary loop.
C24_RewriterOrder ==
  /\ (phase = "compile" /\ loop_stack # << >>)
     => /\ Cardinality(Matching(OpenBody)) <= 1
        /\ OPTIMIZATIONS(OpenBody) = CanonicalOrder(OpenBody)
  /\ LeftAsLoop(<< "[", "+", "]" >>, << IncVal(1) >>)
  /\ LeftAsLoop(<< "[", "-", "-", "]" >>, << DecVal(2) >>)
  /\ LeftAsLoop(<< "[", "-", ">", "+", "<", "<", "]" >>,
                << DecVal(1), IncPC(1), IncVal(1), DecPC(2) >>)
  /\ LeftAsLoop(<< "[", "-", ">", ">", "+", "<", "]" >>,
                << DecVal(1), IncPC(2), IncVal(1), DecPC(1) >>)

\* A move-data body with unequal distances was compiled and is a loop
\* still.
C24_Witness ==
  /\ phase = "compiled"
  /\ ~nooptim
  /\ src = << "[", "-", ">", "+", "<", "<", "]" >>
  /\ instructions = << LoopStart(5), DecVal(1), IncPC(1), IncVal(1), DecPC(2), LoopEnd(0) >>
  /\ stats = [optimized_loop_count |-> 0, loop_count |-> 1]

\* ------------------------------------------------------------------- C25

IsClose(ch) == ch = "]"

IsLoopEnd(ins) == ins.op = "LoopEnd"

\* C25: after every token that push_instr has processed, and so after
\* compile: loop_count is the number of ']' processed,
\* optimized_loop_count is at most loop_count, and the instruction vector
\* holds loop_count - optimized_loop_count LoopEnd instructions.
C25_LoopStats ==
  phase \in {"compile", "compiled"}
  => /\ stats.loop_count = Count(Pushed, IsClose)
     /\ stats.optimized_loop_count <= stats.loop_count
     /\ Count(instructions, IsLoopEnd) = stats.loop_count - stats.optimized_loop_count

\* '[[-]][]' was compiled: three loops closed, two of them rewritten (one
\* a rewrite of a rewrite), one LoopEnd left.
C25_Witness ==
  /\ phase = "compiled"
  /\ ~nooptim
  /\ src = << "[", "[", "-", "]", "]", "[", "]" >>
  /\ stats = [optimized_loop_count |-> 2, loop_count |-> 3]
  /\ Count(instructions, IsLoopEnd) = 1

\* ------------------------------------------------------------------- C26

\* C26: while compile runs, the loop stack is a strictly increasing list of
\* indices of the instruction vector, each of them the place of a
\* LoopStart(0) placeholder, also right after a rewrite has truncated the
\* vector; so the index that a ']' pops is in bounds for the unchecked
\* write that patches it.  After compile the stack is empty.
C26_LoopStackInBounds ==
  /\ phase = "compile"
     => /\ \A i \in 1 .. Len(loop_stack) :
             /\ IsIndex(loop_stack[i])
             /\ At(instructions, loop_stack[i]) = LoopStart(0)
        /\ \A i \in 1 .. Len(loop_stack) - 1 : loop_stack[i] < loop_stack[i + 1]
  /\ phase = "compiled" => loop_stack = << >>

\* compile has read '[[-]+[' and the '+': the inner loop was rewritten and
\* the vector truncated under an open loop, and a second loop was opened
\* behind the rewrite.
C26_Witness ==
  /\ phase = "compile"
  /\ ~nooptim
  /\ src = << "[", "[", "-", "]", "+", "[", "+" >>
  /\ instructions = << LoopStart(0), ZeroCurrentCell, IncVal(1), LoopStart(0) >>
  /\ loop_stack = << 0, 3 >>

\* ------------------------------------------------------------------- C27

\* The program is inside run, has returned from it, or panicked in it.
Running == phase \in {"run", "ran"} \/ RunPanic

\* C27: while a compiled program runs, pc never exceeds the number of
\* instructions, _step is entered only with pc below it, run changes
\* neither the instruction vector nor instr_count nor stats, and a run that
\* returns leaves pc at exactly the number of instructions.
C27_RunStaysInProgram ==
  /\ [](Running => pc <= Len(instructions))
  /\ [](phase = "ran" => pc = Len(instructions))
  /\ [][(phase = "run" /\ (memory' # memory \/ data_ptr' # data_ptr \/ pc' # pc
                            \/ stdin' # stdin \/ stdout' # stdout \/ panic' # panic))
        => IsIndex(pc)]_vars
  /\ [][(phase = "run" \/ phase' = "run")
        => UNCHANGED << instructions, instr_count, stats >>]_vars

\* The run of '[]' returned: on the zero cell its LoopStart jumped to the
\* last instruction, and the run ended one behind it.
C27_Witness ==
  /\ phase = "ran"
  /\ src = << "[", "]" >>
  /\ instructions = << LoopStart(1), LoopEnd(0) >>
  /\ memory = NewMemory
  /\ pc = 2

====
